---- MODULE Spec2Model ----
(***************************************************************************)
(* A model of the two edge functions of UrlSummeriser:                     *)
(*   supabase/functions/summerize_url/index.ts  (Ingest-and-Analyze)       *)
(*   supabase/functions/process-url/index.ts    (Analyze-Existing)         *)
(* together with the row store they talk to (deploy-schema.sql).           *)
(*                                                                         *)
(* A handler runs from one await to the next without interruption, so      *)
(* every action below is the code between two awaits: the external call    *)
(* returns (its outcome is chosen with \E) and the handler runs up to the  *)
(* next external call or up to its response.                               *)
(***************************************************************************)
EXTENDS Integers, Sequences, FiniteSets, TLC

(***************************************************************************)
(* Bounds of the model.                                                    *)
(***************************************************************************)
\* Number of requests the server receives in one behaviour.
MaxRequests == 2

(***************************************************************************)
(* Text.  A text is a sequence of runs [c, n]: the character c repeated n  *)
(* times.  Only the filler letter "x" is ever repeated (n > 1), and two    *)
(* adjacent "x" runs are always merged, so equal texts are equal values.   *)
(* "x" is no whitespace, no angle bracket and no letter of "script" or     *)
(* "style", so a run of it behaves in every pattern below as each of its   *)
(* characters does.  This keeps page bodies longer than the 8000           *)
(* character cap small values.                                             *)
(***************************************************************************)
Ch(c) == [c |-> c, n |-> 1]
Blk(k) == [c |-> "x", n |-> k]

\* String concatenation.
Cat(a, b) ==
  IF a = <<>> THEN b
  ELSE IF b = <<>> THEN a
  ELSE IF a[Len(a)].c = "x" /\ b[1].c = "x"
       THEN SubSeq(a, 1, Len(a) - 1)
              \o <<Blk(a[Len(a)].n + b[1].n)>>
              \o SubSeq(b, 2, Len(b))
       ELSE a \o b

\* The text whose characters are the one-character strings of the tuple t
\* (which holds no two adjacent "x").
Str(t) == [i \in 1..Len(t) |-> Ch(t[i])]

RECURSIVE Length(_)
\* String.prototype.length
Length(s) ==
  IF s = <<>> THEN 0
  ELSE IF Len(s) = 1 THEN s[1].n
  ELSE Length(SubSeq(s, 1, Len(s) \div 2))
         + Length(SubSeq(s, Len(s) \div 2 + 1, Len(s)))

\* The least element of a non-empty set of positions, 0 for the empty set.
First(P) == IF P = {} THEN 0 ELSE CHOOSE p \in P : \A q \in P : p <= q

\* The i flag of a regular expression: letters compare by their lower case.
Lower(c) ==
  CASE c = "S" -> "s"
    [] c = "C" -> "c"
    [] c = "R" -> "r"
    [] c = "I" -> "i"
    [] c = "P" -> "p"
    [] c = "T" -> "t"
    [] c = "Y" -> "y"
    [] c = "L" -> "l"
    [] c = "E" -> "e"
    [] OTHER -> c

\* The class \s of a regular expression, which is also what trim() strips.
IsSpace(e) == e.c \in {" ", "\n", "\t"}

\* s has the literal lit (a tuple of lower-case characters) at position i.
LitAt(s, i, lit) ==
  /\ i >= 1
  /\ i + Len(lit) - 1 <= Len(s)
  /\ \A k \in 1..Len(lit) : Lower(s[i + k - 1].c) = lit[k]

\* Position of the first ">" at or after position from, 0 if there is none.
FirstGt(s, from) == First({q \in from..Len(s) : s[q].c = ">"})

\* Position of the first occurrence of lit at or after from, 0 if none.
FirstLit(s, from, lit) == First({p \in from..Len(s) : LitAt(s, p, lit)})

\* Where a match of /<open[^>]*>[\s\S]*?<close>/i that starts at position i
\* of s ends, 0 if there is no match there.  [^>]* runs to the first ">",
\* the lazy [\s\S]*? to the first occurrence of the closing literal.
BlockEnd(s, i, open, close) ==
  IF ~LitAt(s, i, open) THEN 0
  ELSE LET q == FirstGt(s, i + Len(open))
       IN IF q = 0 THEN 0
          ELSE LET p == FirstLit(s, q + 1, close)
               IN IF p = 0 THEN 0 ELSE p + Len(close) - 1

RECURSIVE RemoveBlocksFrom(_, _, _, _)
\* The search of the global replace, resumed at position i of s: the
\* leftmost match at or after i is removed and the search resumes after it.
RemoveBlocksFrom(s, i, open, close) ==
  LET p == First({j \in i..Len(s) : BlockEnd(s, j, open, close) > 0})
  IN IF p = 0 THEN SubSeq(s, i, Len(s))
     ELSE Cat(SubSeq(s, i, p - 1),
              RemoveBlocksFrom(s, BlockEnd(s, p, open, close) + 1, open, close))

ScriptOpen == <<"<", "s", "c", "r", "i", "p", "t">>
ScriptClose == <<"<", "/", "s", "c", "r", "i", "p", "t", ">">>
StyleOpen == <<"<", "s", "t", "y", "l", "e">>
StyleClose == <<"<", "/", "s", "t", "y", "l", "e", ">">>

\* .replace(/<script[^>]*>[\s\S]*?<\/script>/gi, '')
StripScripts(s) == RemoveBlocksFrom(s, 1, ScriptOpen, ScriptClose)

\* .replace(/<style[^>]*>[\s\S]*?<\/style>/gi, '')
StripStyles(s) == RemoveBlocksFrom(s, 1, StyleOpen, StyleClose)

\* Where a match of /<[^>]*>/ that starts at position i of s ends, 0 if
\* there is no match there: a "<" up to the first ">" after it.
TagEnd(s, i) == IF s[i].c = "<" THEN FirstGt(s, i + 1) ELSE 0

RECURSIVE StripTagsFrom(_, _)
\* The search for /<[^>]*>/g resumed at position i of s.
StripTagsFrom(s, i) ==
  LET p == First({j \in i..Len(s) : TagEnd(s, j) > 0})
  IN IF p = 0 THEN SubSeq(s, i, Len(s))
     ELSE Cat(SubSeq(s, i, p - 1), StripTagsFrom(s, TagEnd(s, p) + 1))

\* StripTags without the g flag: only the first tag is removed.
StripTags_FirstOnly(s) ==
  LET p == First({j \in 1..Len(s) : TagEnd(s, j) > 0})
  IN IF p = 0 THEN s
     ELSE Cat(SubSeq(s, 1, p - 1), SubSeq(s, TagEnd(s, p) + 1, Len(s)))

\* .replace(/<[^>]*>/g, '')
StripTags(s) == StripTagsFrom(s, 1)

\* Where the greedy match of /\s+/ that starts at position i of s ends.
SpacesEnd(s, i) ==
  LET n == First({j \in i..Len(s) : ~IsSpace(s[j])})
  IN IF n = 0 THEN Len(s) ELSE n - 1

RECURSIVE CollapseFrom(_, _)
\* The search for /\s+/g resumed at position i of s: the leftmost run of
\* whitespace becomes one blank.
CollapseFrom(s, i) ==
  LET p == First({j \in i..Len(s) : IsSpace(s[j])})
  IN IF p = 0 THEN SubSeq(s, i, Len(s))
     ELSE SubSeq(s, i, p - 1) \o <<Ch(" ")>>
            \o CollapseFrom(s, SpacesEnd(s, p) + 1)

\* .replace(/\s+/g, ' ')
CollapseWhitespace(s) == CollapseFrom(s, 1)

\* .trim(): without the whitespace at both ends.
Trim(s) ==
  LET P == {j \in 1..Len(s) : ~IsSpace(s[j])}
  IN IF P = {} THEN <<>>
     ELSE SubSeq(s, CHOOSE j \in P : \A k \in P : j <= k,
                    CHOOSE j \in P : \A k \in P : j >= k)

\* .substring(0, k): the first k characters (the whole runs that fit, and
\* the part that fits of the next one).
Substring0(s, k) ==
  LET m == CHOOSE j \in 0..Len(s) :
             /\ Length(SubSeq(s, 1, j)) <= k
             /\ j < Len(s) => Length(SubSeq(s, 1, j + 1)) > k
      rest == k - Length(SubSeq(s, 1, m))
  IN IF m = Len(s) \/ rest = 0 THEN SubSeq(s, 1, m)
     ELSE SubSeq(s, 1, m) \o <<[c |-> s[m + 1].c, n |-> rest]>>

\* The cap of the scraped text.
ScrapeCap == 8000

\* Extract without the cap.
ExtractUncapped(html) ==
  Trim(CollapseWhitespace(StripTags(StripStyles(StripScripts(html)))))

\* The text extraction chain of both handlers.
Extract(html) ==
  Substring0(
    Trim(CollapseWhitespace(StripTags(StripStyles(StripScripts(html))))),
    ScrapeCap)

(***************************************************************************)
(* JavaScript values, as they occur in the JSON bodies of requests and     *)
(* responses.                                                              *)
(***************************************************************************)
JUndef == [t |-> "undefined", num |-> 0, str |-> ""]
JNull == [t |-> "null", num |-> 0, str |-> ""]
JNum(k) == [t |-> "number", num |-> k, str |-> ""]
JStr(s) == [t |-> "string", num |-> 0, str |-> s]
JTrue == [t |-> "boolean", num |-> 1, str |-> ""]
JFalse == [t |-> "boolean", num |-> 0, str |-> ""]

\* !v is false: what `if (!url)`, `if (!prompt_id)`, `a || b` test.
Truthy(v) ==
  CASE v.t = "number" -> v.num # 0
    [] v.t = "string" -> v.str # ""
    [] v.t = "boolean" -> v.num = 1
    [] OTHER -> FALSE

DigitText == <<"0", "1", "2", "3", "4", "5", "6", "7", "8", "9">>

\* v is acceptable where the store expects a BIGINT: a number, or text that
\* reads as one (the value travels as text in the filter id=eq.<v> and the
\* store casts it).
IsBigint(v) ==
  \/ v.t = "number"
  \/ v.t = "string" /\ \E d \in 1..Len(DigitText) : DigitText[d] = v.str

\* The BIGINT the store reads v as.
ToBigint(v) ==
  IF v.t = "number" THEN v.num
  ELSE (CHOOSE d \in 1..Len(DigitText) : DigitText[d] = v.str) - 1

\* The TEXT the store keeps for v.
ToText(v) ==
  IF v.t = "string" THEN v.str ELSE DigitText[v.num + 1]

(***************************************************************************)
(* The row store: tables urls, prompts and url_summery.                    *)
(***************************************************************************)
NoUrlRow == [id |-> 0, created_at |-> 0, url |-> "", caption |-> 0]
NoPromptRow == [id |-> 0, prompt_name |-> "", prompt |-> ""]
NoSummeryRow ==
  [id |-> 0, created_at |-> 0, url_id |-> 0, prompt_id |-> 0,
   scraped_data |-> <<>>, ai_response |-> ""]

\* The sample prompts the schema script inserts.
SamplePrompts ==
  { [id |-> 1, prompt_name |-> "General Summary",
     prompt |-> "Please provide a concise summary of this webpage in 2-3 sentences, focusing on the main points and key information."],
    [id |-> 2, prompt_name |-> "Key Insights",
     prompt |-> "Analyze this webpage and extract the top 3-5 key insights or takeaways. Present them as bullet points."],
    [id |-> 3, prompt_name |-> "Technical Analysis",
     prompt |-> "Provide a technical analysis of this webpage, focusing on any technical concepts, methodologies, or implementations discussed."],
    [id |-> 4, prompt_name |-> "Business Analysis",
     prompt |-> "Analyze this webpage from a business perspective. What are the business implications, opportunities, or strategies mentioned?"] }

\* .eq('id', v): the rows of the table whose id is v.
SelectById(table, v) ==
  IF IsBigint(v) THEN {row \in table : row.id = ToBigint(v)} ELSE {}

\* .single(): the one row of the result, no data unless there is exactly one.
Single(rows, none) ==
  IF Cardinality(rows) = 1 THEN CHOOSE row \in rows : TRUE ELSE none

(***************************************************************************)
(* Requests.                                                               *)
(***************************************************************************)
SU == "summerize_url"
PU == "process-url"

OptionsRequest ==
  [method |-> "OPTIONS", json |-> FALSE,
   url |-> JUndef, url_id |-> JUndef, prompt_id |-> JUndef]

\* A request whose body req.json() cannot decode.
UndecodableRequest ==
  [method |-> "POST", json |-> FALSE,
   url |-> JUndef, url_id |-> JUndef, prompt_id |-> JUndef]

AbsoluteUrls == {"https://example.com"}

\* The url fields tried: absent, empty, a number, an absolute URI, and text
\* that is no absolute URI.
UrlValues ==
  {JUndef, JStr(""), JNum(7), JStr("https://example.com"), JStr("example.com")}

\* The id fields tried: absent, zero, an id, an id of no row, an id as text,
\* text that is no number.
IdValues == {JUndef, JNum(0), JNum(1), JNum(9), JStr("2"), JStr("abc")}

SURequests ==
  {OptionsRequest, UndecodableRequest} \cup
  { [method |-> "POST", json |-> TRUE, url |-> u, url_id |-> JUndef,
     prompt_id |-> p] : u \in UrlValues, p \in IdValues }

PURequests ==
  {OptionsRequest, UndecodableRequest} \cup
  { [method |-> "POST", json |-> TRUE, url |-> JUndef, url_id |-> i,
     prompt_id |-> p] : i \in IdValues, p \in IdValues }

(***************************************************************************)
(* State.                                                                  *)
(***************************************************************************)
VARIABLES
  urls,        \* table urls
  prompts,     \* table prompts
  summery,     \* table url_summery
  nextUrlId,   \* the BIGSERIAL of urls.id
  nextSummeryId, \* the BIGSERIAL of url_summery.id
  env,         \* Deno.env: OPENAI_API_KEY
  run,         \* the invocations: one record of locals per handler slot
  received,    \* number of requests received so far
  client       \* the state of the URL list component in the browser

vars ==
  <<urls, prompts, summery, nextUrlId, nextSummeryId, env, run, received,
    client>>

store == <<urls, prompts, summery, nextUrlId, nextSummeryId>>

\* The handler slots: invocations that can be in flight together.
Slots == {1, 2}

\* The ids of the rows the URL list can show.
ListIds == {1, 2}

\* UrlList before it is mounted: the initial values of its useState hooks
\* (null is 0, a key that selectedPrompts lacks is 0), no request in flight.
\* closureUrls is the urls that the fetchPrompts in flight sees, invoked
\* counts the process-url requests in flight for each URL.
\* EnteredURL likewise, from formUrl on: body is the request of the last
\* submission, submitted and returned count the calls of summerize_url and
\* their ends, refreshed tells whether the last end called onUrlProcessed.
NoClient ==
  [mounted |-> FALSE, urls |-> {}, prompts |-> <<>>, summaries |-> {},
   loading |-> TRUE, processingId |-> 0, results |-> "",
   selectedPrompts |-> [u \in ListIds |-> 0], error |-> "",
   fetchUrlsPending |-> FALSE, fetchPromptsPending |-> FALSE,
   fetchSummariesPending |-> 0, closureUrls |-> {},
   invoked |-> [u \in ListIds |-> 0], clicks |-> 0, chosen |-> FALSE,
   formUrl |-> "", formLoading |-> FALSE, summary |-> "", formError |-> "",
   formPrompts |-> <<>>, selectedPromptId |-> 0,
   formPromptsPending |-> FALSE, body |-> [url |-> "", prompt_id |-> 0],
   submitted |-> 0, returned |-> 0, refreshed |-> FALSE]

NoData == [hasChoices |-> FALSE, choices |-> <<>>]
NoMessage == [sent |-> FALSE, prompt |-> "", url |-> "", content |-> <<>>]
\* The CORS header every response carries, and those of a preflight answer.
CorsOrigin == {"Access-Control-Allow-Origin"}
CorsPreflight ==
  {"Access-Control-Allow-Origin", "Access-Control-Allow-Methods",
   "Access-Control-Allow-Headers"}

NoResponse == [status |-> 0, cors |-> {}, body |-> <<>>]

\* No outcome yet of the GET of the target, of the completion call.
NoFetch == [kind |-> "", body |-> <<>>]
NoCompletion == [kind |-> "", data |-> NoData]

\* A slot with no invocation: every local of the handler unset.
IdleRun ==
  [pc |-> "Idle", ep |-> "", req |-> OptionsRequest,
   insertData |-> NoUrlRow, urlData |-> NoUrlRow, promptData |-> NoPromptRow,
   html |-> <<>>, scrapedText |-> <<>>, message |-> NoMessage,
   chatGptData |-> NoData, aiResponse |-> "", summeryData |-> NoSummeryRow,
   calls |-> <<>>, hist |-> <<>>, fail |-> "", mode |-> "", resp |-> NoResponse,
   fetched |-> NoFetch, completed |-> NoCompletion, persisted |-> "",
   urls0 |-> {}, summery0 |-> {}]

\* The store's clock, NOW(): it advances with every row created.
Now == nextUrlId + nextSummeryId

Init ==
  /\ urls = {}
  /\ prompts = SamplePrompts
  /\ summery = {}
  /\ nextUrlId = 1
  /\ nextSummeryId = 1
  /\ env \in {[OPENAI_API_KEY |-> JUndef], [OPENAI_API_KEY |-> JStr("sk-key")]}
  /\ run = [r \in Slots |-> IdleRun]
  /\ received = 0
  /\ client = NoClient

\* new Response(JSON.stringify(body), {status, headers}): the invocation ends.
Respond(rec, status, body, fail) ==
  [rec EXCEPT !.pc = "Done",
                 !.hist = Append(@, "Done"),
                 !.fail = fail,
                 !.resp = [status |-> status, cors |-> CorsOrigin, body |-> body]]

\* A request arrives at a free slot: the locals of a new invocation.
NewRun(ep, req) ==
  [IdleRun EXCEPT !.ep = ep, !.req = req, !.pc = "Received",
                  !.hist = <<"Received">>,
                  !.urls0 = urls, !.summery0 = summery]

Free(r) == run[r].pc \in {"Idle", "Done"} /\ received < MaxRequests

(***************************************************************************)
(* The outside world: what the target site and the completion service      *)
(* answer.                                                                 *)
(***************************************************************************)
\* <html><body><script>x</script>Hello <b>World</b></body></html>
ExamplePage ==
  Str(<<"<", "h", "t", "m", "l", ">", "<", "b", "o", "d", "y", ">",
        "<", "s", "c", "r", "i", "p", "t", ">", "x",
        "<", "/", "s", "c", "r", "i", "p", "t", ">",
        "H", "e", "l", "l", "o", " ", "<", "b", ">", "W", "o", "r", "l", "d",
        "<", "/", "b", ">", "<", "/", "b", "o", "d", "y", ">",
        "<", "/", "h", "t", "m", "l", ">">>)

\* A page whose text is longer than the cap: <p>, 7999 letters, a line
\* break, three letters, </p>.
LongPage ==
  Str(<<"<", "p", ">">>) \o <<Blk(ScrapeCap - 1), Ch("\n"), Blk(3)>>
    \o Str(<<"<", "/", "p", ">">>)

\* A page with no text: <STYLE>p</style>, a blank and a line break.
BlankPage ==
  Str(<<"<", "S", "T", "y", "l", "e", ">", "p",
        "<", "/", "s", "t", "y", "l", "e", ">", " ", "\n">>)

Pages == {ExamplePage, LongPage, BlankPage}

\* Outcomes of fetch(url): the call raises, the status is not 2xx, or a page.
FetchOutcomes ==
  {[kind |-> "throws", body |-> <<>>], [kind |-> "non2xx", body |-> <<>>]}
    \cup {[kind |-> "ok", body |-> b] : b \in Pages}

Choice(hasMessage, hasContent, content) ==
  [hasMessage |-> hasMessage, hasContent |-> hasContent, content |-> content]

\* Decoded bodies of the completion service: no choices field, no choice, a
\* choice with no message, a message with no content, an empty text, a text,
\* and two choices.
CompletionData ==
  { [hasChoices |-> FALSE, choices |-> <<>>],
    [hasChoices |-> TRUE, choices |-> <<>>],
    [hasChoices |-> TRUE, choices |-> <<Choice(FALSE, FALSE, "")>>],
    [hasChoices |-> TRUE, choices |-> <<Choice(TRUE, FALSE, "")>>],
    [hasChoices |-> TRUE, choices |-> <<Choice(TRUE, TRUE, "")>>],
    [hasChoices |-> TRUE, choices |-> <<Choice(TRUE, TRUE, "A short page.")>>],
    [hasChoices |-> TRUE,
     choices |-> <<Choice(TRUE, TRUE, "First."), Choice(TRUE, TRUE, "Second.")>>] }

\* Outcomes of the completion call: it raises, the status is not 2xx, the
\* body is no JSON, or a decoded body.
CompletionOutcomes ==
  { [kind |-> k, data |-> NoData] : k \in {"throws", "non2xx", "undecodable"} }
    \cup {[kind |-> "ok", data |-> d] : d \in CompletionData}

\* chatGptData.choices[0] raises a TypeError when choices is undefined.
ChoicesThrows(data) == ~data.hasChoices

\* chatGptData.choices[0]?.message?.content
FirstChoiceContent(data) ==
  IF Len(data.choices) = 0 THEN JUndef
  ELSE IF ~data.choices[1].hasMessage THEN JUndef
  ELSE IF ~data.choices[1].hasContent THEN JUndef
  ELSE JStr(data.choices[1].content)

\* AiResponse reading the last choice instead of the first.
AiResponse_LastChoice(data) ==
  IF Len(data.choices) > 0
       /\ data.choices[Len(data.choices)].hasMessage
       /\ data.choices[Len(data.choices)].hasContent
       /\ data.choices[Len(data.choices)].content # ""
  THEN data.choices[Len(data.choices)].content
  ELSE "No response generated"

\* chatGptData.choices[0]?.message?.content || "No response generated"
AiResponse(data) ==
  IF Truthy(FirstChoiceContent(data))
  THEN FirstChoiceContent(data).str
  ELSE "No response generated"

\* The user message of the completion request,
\* `${finalPrompt}\n\nWebsite URL: ${url}\nContent: ${scrapedText}`,
\* as its three parts.
Message(finalPrompt, url, scrapedText) ==
  [sent |-> TRUE, prompt |-> finalPrompt, url |-> url, content |-> scrapedText]

\* fetch(url) rejects a url that is no absolute URI before sending anything.
IsAbsoluteUrl(text) == text \in AbsoluteUrls

\* RespondPreflight answering as every other response does: a JSON body and
\* the one CORS header.
RespondPreflight_AsJson(rec) ==
  [rec EXCEPT !.pc = "Done",
              !.hist = Append(@, "Done"),
              !.resp = [status |-> 200, cors |-> CorsOrigin,
                        body |-> [success |-> JTrue]]]

\* new Response(null, {status: 200, headers}): the answer to a preflight.
RespondPreflight(rec) ==
  [rec EXCEPT !.pc = "Done",
              !.hist = Append(@, "Done"),
              !.resp = [status |-> 200, cors |-> CorsPreflight, body |-> <<>>]]

\* The handler enters the state `state` and issues the external call `call`.
Advance(rec, state, call) ==
  [rec EXCEPT !.pc = state,
              !.hist = Append(@, state),
              !.calls = Append(@, call)]

\* SummeryId with the fallback to null left out.
SummeryId_NoFallback(summeryData) == JNum(summeryData.id)

\* summeryData?.id || null
SummeryId(summeryData) ==
  IF summeryData.id # 0 THEN JNum(summeryData.id) ELSE JNull

(***************************************************************************)
(* summerize_url: Ingest-and-Analyze.                                      *)
(***************************************************************************)
SU_InsertErrorBody(message) ==
  [error |-> JStr("Failed to save URL to database"),
   details |-> JStr(message), code |-> JStr("code"), hint |-> JStr("hint")]

\* SU_PromptErrorBody without the identifier of the saved URL.
SU_PromptErrorBody_NoUrlId(insertData, message) ==
  [error |-> JStr("Failed to fetch prompt from database"),
   details |-> JStr(message)]

SU_PromptErrorBody(insertData, message) ==
  [error |-> JStr("Failed to fetch prompt from database"),
   details |-> JStr(message),
   url_id |-> JNum(insertData.id)]

SU_ScrapeErrorBody(insertData, message) ==
  [error |-> JStr("Failed to scrape URL content"),
   details |-> JStr(message),
   url_id |-> JNum(insertData.id)]

\* SU_NoKeyBody without the identifier of the saved URL.
SU_NoKeyBody_NoUrlId(insertData) ==
  [error |-> JStr("OpenAI API key not configured")]

SU_NoKeyBody(insertData) ==
  [error |-> JStr("OpenAI API key not configured"),
   url_id |-> JNum(insertData.id)]

SU_AiErrorBody(insertData, message) ==
  [error |-> JStr("URL saved but AI processing failed"),
   details |-> JStr(message),
   url_id |-> JNum(insertData.id),
   url |-> JStr(insertData.url),
   created_at |-> JNum(insertData.created_at),
   processed |-> JFalse]

SU_SuccessBody(insertData, promptData, aiResponse, summeryData) ==
  [success |-> JTrue,
   url_id |-> JNum(insertData.id),
   url |-> JStr(insertData.url),
   summary |-> JStr(aiResponse),
   prompt_used |-> JStr(promptData.prompt_name),
   created_at |-> JNum(insertData.created_at),
   processed |-> JTrue,
   summery_id |-> SummeryId(summeryData)]

\* The request is decoded and validated; a valid one issues the urls insert.
SU_Validate(rec) ==
  IF rec.req.method = "OPTIONS" THEN RespondPreflight(rec)
  ELSE IF ~rec.req.json
  THEN Respond(rec, 400, [error |-> JStr("Invalid request body")], "validation")
  ELSE IF ~Truthy(rec.req.url)
  THEN Respond(rec, 400, [error |-> JStr("URL is required")], "validation")
  ELSE IF ~Truthy(rec.req.prompt_id)
  THEN Respond(rec, 400, [error |-> JStr("prompt_id is required")], "validation")
  ELSE [rec EXCEPT !.calls = Append(@, "insert urls")]

\* A request arrives at summerize_url.
SU_Receive(r) ==
  /\ Free(r)
  /\ \E req \in SURequests :
       run' = [run EXCEPT ![r] = SU_Validate(NewRun(SU, req))]
  /\ received' = received + 1
  /\ UNCHANGED <<store, env, client>>

\* SU_NewUrlRow with an id that is not taken from the sequence of the table.
SU_NewUrlRow_SameId(req) ==
  [id |-> 1, created_at |-> Now, url |-> ToText(req.url), caption |-> Now]

\* The row the urls insert creates.
SU_NewUrlRow(req) ==
  [id |-> nextUrlId, created_at |-> Now, url |-> ToText(req.url),
   caption |-> Now]

\* An insert that replaces the rows of the same url.
InsertUrl_Upsert(rows, row) == {x \in rows : x.url # row.url} \cup {row}

\* The urls table after the insert of row: one more row.
InsertUrl(rows, row) == rows \cup {row}

\* SU_AfterInsert with the check of insertError left out.
SU_AfterInsert_IgnoreError(rec, ok, row) ==
  Advance([rec EXCEPT !.insertData = IF ok THEN row ELSE NoUrlRow],
          "Inserted", "select prompts")

\* The handler after the urls insert returned row, or an error (ok false).
SU_AfterInsert(rec, ok, row) ==
  IF ok
  THEN Advance([rec EXCEPT !.insertData = row], "Inserted", "select prompts")
  ELSE Respond(rec, 500, SU_InsertErrorBody("insert failed"), "insert")

\* Received -> Inserted: the urls insert returns.
SU_CreateUrlRecord(r) ==
  /\ run[r].ep = SU
  /\ run[r].pc = "Received"
  /\ \E ok \in BOOLEAN :
       /\ urls' = IF ok THEN InsertUrl(urls, SU_NewUrlRow(run[r].req)) ELSE urls
       /\ nextUrlId' = IF ok THEN nextUrlId + 1 ELSE nextUrlId
       /\ run' = [run EXCEPT ![r] =
                    SU_AfterInsert(run[r], ok, SU_NewUrlRow(run[r].req))]
  /\ UNCHANGED <<prompts, summery, nextSummeryId, env, client, received>>

\* After the prompt is read: fetch(url), which rejects at once when url is
\* no absolute URI.
SU_StartScrape(rec) ==
  IF IsAbsoluteUrl(ToText(rec.req.url))
  THEN Advance(rec, "PromptResolved", "GET")
  ELSE [Respond([rec EXCEPT !.hist = Append(@, "PromptResolved")], 500,
                SU_ScrapeErrorBody(rec.insertData, "Invalid URL"), "scrape")
          EXCEPT !.mode = "invalid url"]

\* The handler after the prompts select returned promptData (NoPromptRow
\* with an error).
SU_AfterPrompt(rec, promptData) ==
  IF promptData = NoPromptRow
  THEN Respond(rec, 404, SU_PromptErrorBody(rec.insertData, "no rows"),
               "prompt")
  ELSE SU_StartScrape([rec EXCEPT !.promptData = promptData])

\* The answer of the store to .from(table).select('*').eq('id', v).single().
SelectSingle(table, v, ok, none) ==
  IF ok THEN Single(SelectById(table, v), none) ELSE none

\* SU_ResolvePrompt undoing the urls insert when the prompt is not found.
SU_ResolvePrompt_Rollback(r) ==
  /\ run[r].ep = SU
  /\ run[r].pc = "Inserted"
  /\ \E ok \in BOOLEAN :
       LET promptData ==
             SelectSingle(prompts, run[r].req.prompt_id, ok, NoPromptRow)
       IN /\ run' = [run EXCEPT ![r] = SU_AfterPrompt(run[r], promptData)]
          /\ urls' = IF promptData = NoPromptRow
                     THEN urls \ {run[r].insertData}
                     ELSE urls
  /\ UNCHANGED
       <<prompts, summery, nextUrlId, nextSummeryId, env, client, received>>

\* Inserted -> PromptResolved: the prompts select returns.
SU_ResolvePrompt(r) ==
  /\ run[r].ep = SU
  /\ run[r].pc = "Inserted"
  /\ \E ok \in BOOLEAN :
       run' = [run EXCEPT ![r] =
         SU_AfterPrompt(run[r],
           SelectSingle(prompts, run[r].req.prompt_id, ok, NoPromptRow))]
  /\ UNCHANGED <<store, env, client, received>>

\* After the page is scraped: the key is read and the completion is called.
SU_StartCompletion(rec) ==
  IF ~Truthy(env.OPENAI_API_KEY)
  THEN Respond([rec EXCEPT !.hist = Append(@, "Scraped")], 500,
               SU_NoKeyBody(rec.insertData), "no key")
  ELSE Advance([rec EXCEPT !.message =
                  Message(rec.promptData.prompt, ToText(rec.req.url),
                          rec.scrapedText)],
               "Scraped", "POST completions")

\* SU_AfterFetch with the check of response.ok left out.
SU_AfterFetch_NoOkCheck(rec, o) ==
  IF o.kind \in {"ok", "non2xx"}
  THEN SU_StartCompletion([rec EXCEPT !.html = o.body,
                                      !.scrapedText = Extract(o.body)])
  ELSE [Respond(rec, 500, SU_ScrapeErrorBody(rec.insertData, o.kind), "scrape")
          EXCEPT !.mode = o.kind]

\* The handler after the GET of the target URL ended with outcome o.
SU_AfterFetch(rec, o) ==
  IF o.kind = "ok"
  THEN SU_StartCompletion([rec EXCEPT !.html = o.body,
                                      !.scrapedText = Extract(o.body)])
  ELSE [Respond(rec, 500, SU_ScrapeErrorBody(rec.insertData, o.kind), "scrape")
          EXCEPT !.mode = o.kind]

\* PromptResolved -> Scraped: the GET of the target URL returns.
SU_Scrape(r) ==
  /\ run[r].ep = SU
  /\ run[r].pc = "PromptResolved"
  /\ \E o \in FetchOutcomes :
       run' = [run EXCEPT ![r] =
                 SU_AfterFetch([run[r] EXCEPT !.fetched = o], o)]
  /\ UNCHANGED <<store, env, client, received>>

\* SU_AfterCompletion calling the completion service again when it fails.
SU_AfterCompletion_Retry(rec, o) ==
  IF o.kind = "ok" /\ ~ChoicesThrows(o.data)
  THEN Advance([rec EXCEPT !.chatGptData = o.data,
                           !.aiResponse = AiResponse(o.data)],
               "Completed", "insert url_summery")
  ELSE Advance(rec, "Scraped", "POST completions")

\* The handler after the completion call ended with outcome o.
SU_AfterCompletion(rec, o) ==
  IF o.kind = "ok" /\ ~ChoicesThrows(o.data)
  THEN Advance([rec EXCEPT !.chatGptData = o.data,
                           !.aiResponse = AiResponse(o.data)],
               "Completed", "insert url_summery")
  ELSE [Respond(rec, 500, SU_AiErrorBody(rec.insertData, o.kind), "completion")
          EXCEPT !.mode = IF o.kind = "ok" THEN "no choices" ELSE o.kind]

\* Scraped -> Completed: the completion call returns.
SU_Complete(r) ==
  /\ run[r].ep = SU
  /\ run[r].pc = "Scraped"
  /\ \E o \in CompletionOutcomes :
       run' = [run EXCEPT ![r] =
                 SU_AfterCompletion([run[r] EXCEPT !.completed = o], o)]
  /\ UNCHANGED <<store, env, client, received>>

\* ReferencesExist with the foreign keys of url_summery not enforced.
ReferencesExist_NotEnforced(urlId, promptId) ==
  IsBigint(urlId) /\ IsBigint(promptId)

\* The foreign keys of url_summery: the store takes the row only if the
\* rows it references exist.
ReferencesExist(urlId, promptId) ==
  /\ IsBigint(urlId) /\ \E u \in urls : u.id = ToBigint(urlId)
  /\ IsBigint(promptId) /\ \E p \in prompts : p.id = ToBigint(promptId)

\* What the store answers to the url_summery insert: the row is stored, a
\* foreign key is violated, or the insert fails otherwise (ok false).
InsertOutcome(ok, urlId, promptId) ==
  IF ~ok THEN "error"
  ELSE IF ReferencesExist(urlId, promptId) THEN "stored"
  ELSE "foreign key"

\* An insert that replaces the analysis results of the same URL.
InsertSummery_Upsert(rows, row) ==
  {x \in rows : x.url_id # row.url_id} \cup {row}

\* The url_summery table after the insert of row: one more row.
InsertSummery(rows, row) == rows \cup {row}

\* The row the url_summery insert creates.
NewSummeryRow(urlId, promptId, scrapedText, aiResponse) ==
  [id |-> nextSummeryId, created_at |-> Now,
   url_id |-> ToBigint(urlId), prompt_id |-> ToBigint(promptId),
   scraped_data |-> scrapedText, ai_response |-> aiResponse]

\* The handler after the url_summery insert returned summeryData
\* (NoSummeryRow with an error): the response is composed.
SU_AfterPersist(rec, summeryData) ==
  Respond([rec EXCEPT !.summeryData = summeryData,
                      !.hist = Append(@, IF summeryData = NoSummeryRow
                                         THEN "PersistenceFailed"
                                         ELSE "Persisted")],
          200,
          SU_SuccessBody(rec.insertData, rec.promptData, rec.aiResponse,
                         summeryData),
          "")

\* Completed -> Persisted | PersistenceFailed -> Done: the url_summery
\* insert returns.
SU_Persist(r) ==
  /\ run[r].ep = SU
  /\ run[r].pc = "Completed"
  /\ \E ok \in BOOLEAN :
       LET row == NewSummeryRow(JNum(run[r].insertData.id), run[r].req.prompt_id,
                                run[r].scrapedText, run[r].aiResponse)
           stored == ok /\ ReferencesExist(JNum(run[r].insertData.id),
                                           run[r].req.prompt_id)
       IN /\ summery' = IF stored THEN InsertSummery(summery, row) ELSE summery
          /\ nextSummeryId' = IF stored THEN nextSummeryId + 1 ELSE nextSummeryId
          /\ run' = [run EXCEPT ![r] =
               SU_AfterPersist(
                 [run[r] EXCEPT !.persisted =
                    InsertOutcome(ok, JNum(run[r].insertData.id),
                                  run[r].req.prompt_id)],
                 IF stored THEN row ELSE NoSummeryRow)]
  /\ UNCHANGED <<urls, prompts, nextUrlId, env, client, received>>

(***************************************************************************)
(* process-url: Analyze-Existing.                                          *)
(***************************************************************************)
PU_UrlErrorBody(message) ==
  [error |-> JStr("Failed to fetch URL from database"),
   details |-> JStr(message)]

PU_PromptErrorBody(message) ==
  [error |-> JStr("Failed to fetch prompt from database"),
   details |-> JStr(message)]

PU_ScrapeErrorBody(message) ==
  [error |-> JStr("Failed to scrape URL content"),
   details |-> JStr(message)]

PU_NoKeyBody == [error |-> JStr("OpenAI API key not configured")]

PU_AiErrorBody(message) ==
  [error |-> JStr("Failed to get AI response"),
   details |-> JStr(message)]

PU_SuccessBody(req, urlData, promptData, scrapedText, aiResponse, summeryData) ==
  [success |-> JTrue,
   url_id |-> req.url_id,
   url |-> JStr(urlData.url),
   original_caption |-> JNum(urlData.caption),
   scraped_text_length |-> JNum(Length(scrapedText)),
   ai_response |-> JStr(aiResponse),
   prompt_used |-> JStr(promptData.prompt),
   prompt_name |-> JStr(promptData.prompt_name),
   model |-> JStr("gpt-3.5-turbo"),
   summery_id |-> SummeryId(summeryData)]

\* The request is decoded and validated; a valid one issues the urls select.
PU_Validate(rec) ==
  IF rec.req.method = "OPTIONS" THEN RespondPreflight(rec)
  ELSE IF ~rec.req.json
  THEN Respond(rec, 400,
               [error |-> JStr("Invalid request body or internal error"),
                details |-> JStr("Unexpected end of JSON input")],
               "validation")
  ELSE IF ~Truthy(rec.req.url_id)
  THEN Respond(rec, 400, [error |-> JStr("url_id is required")], "validation")
  ELSE IF ~Truthy(rec.req.prompt_id)
  THEN Respond(rec, 400, [error |-> JStr("prompt_id is required")], "validation")
  ELSE [rec EXCEPT !.calls = Append(@, "select urls")]

\* A request arrives at process-url.
PU_Receive(r) ==
  /\ Free(r)
  /\ \E req \in PURequests :
       run' = [run EXCEPT ![r] = PU_Validate(NewRun(PU, req))]
  /\ received' = received + 1
  /\ UNCHANGED <<store, env, client>>

\* PU_AfterUrl fetching the target before the prompt is read.
PU_AfterUrl_FetchFirst(rec, urlData) ==
  IF urlData = NoUrlRow
  THEN Respond(rec, 404, PU_UrlErrorBody("no rows"), "url")
  ELSE Advance([rec EXCEPT !.urlData = urlData], "UrlFetched", "GET")

\* The handler after the urls select returned urlData (NoUrlRow with an
\* error).
PU_AfterUrl(rec, urlData) ==
  IF urlData = NoUrlRow
  THEN Respond(rec, 404, PU_UrlErrorBody("no rows"), "url")
  ELSE Advance([rec EXCEPT !.urlData = urlData], "UrlFetched", "select prompts")

\* Received -> UrlFetched: the urls select returns.
PU_ReadUrlRecord(r) ==
  /\ run[r].ep = PU
  /\ run[r].pc = "Received"
  /\ \E ok \in BOOLEAN :
       run' = [run EXCEPT ![r] =
         PU_AfterUrl(run[r],
           SelectSingle(urls, run[r].req.url_id, ok, NoUrlRow))]
  /\ UNCHANGED <<store, env, client, received>>

\* After the prompt is read: fetch(urlData.url), which rejects at once when
\* the url is no absolute URI.
PU_StartScrape(rec) ==
  IF IsAbsoluteUrl(rec.urlData.url)
  THEN Advance(rec, "PromptResolved", "GET")
  ELSE [Respond([rec EXCEPT !.hist = Append(@, "PromptResolved")], 500,
                PU_ScrapeErrorBody("Invalid URL"), "scrape")
          EXCEPT !.mode = "invalid url"]

\* PU_AfterPrompt with the check of promptError left out.
PU_AfterPrompt_NoErrorCheck(rec, promptData) ==
  IF rec.urlData = NoUrlRow
  THEN Respond(rec, 404, [error |-> JStr("URL not found")], "url")
  ELSE PU_StartScrape([rec EXCEPT !.promptData = promptData])

\* PU_AfterPrompt awaiting the prompt until it is there.
PU_AfterPrompt_Wait(rec, promptData) ==
  IF promptData = NoPromptRow
  THEN rec
  ELSE PU_StartScrape([rec EXCEPT !.promptData = promptData])

\* The handler after the prompts select returned promptData (NoPromptRow
\* with an error).
PU_AfterPrompt(rec, promptData) ==
  IF promptData = NoPromptRow
  THEN Respond(rec, 404, PU_PromptErrorBody("no rows"), "prompt")
  ELSE IF rec.urlData = NoUrlRow
  THEN Respond(rec, 404, [error |-> JStr("URL not found")], "url")
  ELSE PU_StartScrape([rec EXCEPT !.promptData = promptData])

\* UrlFetched -> PromptResolved: the prompts select returns.
PU_ResolvePrompt(r) ==
  /\ run[r].ep = PU
  /\ run[r].pc = "UrlFetched"
  /\ \E ok \in BOOLEAN :
       run' = [run EXCEPT ![r] =
         PU_AfterPrompt(run[r],
           SelectSingle(prompts, run[r].req.prompt_id, ok, NoPromptRow))]
  /\ UNCHANGED <<store, env, client, received>>

\* PU_StartCompletion with the check of the key left out.
PU_StartCompletion_NoKeyCheck(rec) ==
  Advance([rec EXCEPT !.message =
             Message(rec.promptData.prompt, rec.urlData.url, rec.scrapedText)],
          "Scraped", "POST completions")

\* After the page is scraped: the key is read and the completion is called.
PU_StartCompletion(rec) ==
  IF ~Truthy(env.OPENAI_API_KEY)
  THEN Respond([rec EXCEPT !.hist = Append(@, "Scraped")], 500,
               PU_NoKeyBody, "no key")
  ELSE Advance([rec EXCEPT !.message =
                  Message(rec.promptData.prompt, rec.urlData.url,
                          rec.scrapedText)],
               "Scraped", "POST completions")

\* PU_AfterFetch sending the GET again when it fails.
PU_AfterFetch_Retry(rec, o) ==
  IF o.kind = "ok"
  THEN PU_StartCompletion([rec EXCEPT !.html = o.body,
                                      !.scrapedText = Extract(o.body)])
  ELSE [rec EXCEPT !.calls = Append(@, "GET")]

\* The handler after the GET of the target URL ended with outcome o.
PU_AfterFetch(rec, o) ==
  IF o.kind = "ok"
  THEN PU_StartCompletion([rec EXCEPT !.html = o.body,
                                      !.scrapedText = Extract(o.body)])
  ELSE [Respond(rec, 500, PU_ScrapeErrorBody(o.kind), "scrape")
          EXCEPT !.mode = o.kind]

\* PromptResolved -> Scraped: the GET of the target URL returns.
PU_Scrape(r) ==
  /\ run[r].ep = PU
  /\ run[r].pc = "PromptResolved"
  /\ \E o \in FetchOutcomes :
       run' = [run EXCEPT ![r] =
                 PU_AfterFetch([run[r] EXCEPT !.fetched = o], o)]
  /\ UNCHANGED <<store, env, client, received>>

\* PU_AfterCompletion without the check of chatGptResponse.ok.
PU_AfterCompletion_NoOkCheck(rec, o) ==
  IF o.kind \in {"ok", "non2xx"}
  THEN Advance([rec EXCEPT !.chatGptData = o.data,
                           !.aiResponse = "No response generated"],
               "Completed", "insert url_summery")
  ELSE [Respond(rec, 500, PU_AiErrorBody(o.kind), "completion")
          EXCEPT !.mode = o.kind]

\* The handler after the completion call ended with outcome o.
PU_AfterCompletion(rec, o) ==
  IF o.kind = "ok" /\ ~ChoicesThrows(o.data)
  THEN Advance([rec EXCEPT !.chatGptData = o.data,
                           !.aiResponse = AiResponse(o.data)],
               "Completed", "insert url_summery")
  ELSE [Respond(rec, 500, PU_AiErrorBody(o.kind), "completion")
          EXCEPT !.mode = IF o.kind = "ok" THEN "no choices" ELSE o.kind]

\* Scraped -> Completed: the completion call returns.
PU_Complete(r) ==
  /\ run[r].ep = PU
  /\ run[r].pc = "Scraped"
  /\ \E o \in CompletionOutcomes :
       run' = [run EXCEPT ![r] =
                 PU_AfterCompletion([run[r] EXCEPT !.completed = o], o)]
  /\ UNCHANGED <<store, env, client, received>>

\* PU_AfterPersist answering 500 when the insert failed.
PU_AfterPersist_FailOnError(rec, summeryData) ==
  IF summeryData = NoSummeryRow
  THEN Respond([rec EXCEPT !.hist = Append(@, "PersistenceFailed")], 500,
               PU_AiErrorBody("insert failed"), "persist")
  ELSE Respond([rec EXCEPT !.summeryData = summeryData,
                           !.hist = Append(@, "Persisted")],
               200,
               PU_SuccessBody(rec.req, rec.urlData, rec.promptData,
                              rec.scrapedText, rec.aiResponse, summeryData),
               "")

\* The handler after the url_summery insert returned summeryData
\* (NoSummeryRow with an error): the response is composed.
PU_AfterPersist(rec, summeryData) ==
  Respond([rec EXCEPT !.summeryData = summeryData,
                      !.hist = Append(@, IF summeryData = NoSummeryRow
                                         THEN "PersistenceFailed"
                                         ELSE "Persisted")],
          200,
          PU_SuccessBody(rec.req, rec.urlData, rec.promptData, rec.scrapedText,
                         rec.aiResponse, summeryData),
          "")

\* Completed -> Persisted | PersistenceFailed -> Done: the url_summery
\* insert returns.
PU_Persist(r) ==
  /\ run[r].ep = PU
  /\ run[r].pc = "Completed"
  /\ \E ok \in BOOLEAN :
       LET row == NewSummeryRow(run[r].req.url_id, run[r].req.prompt_id,
                                run[r].scrapedText, run[r].aiResponse)
           stored == ok /\ ReferencesExist(run[r].req.url_id,
                                           run[r].req.prompt_id)
       IN /\ summery' = IF stored THEN InsertSummery(summery, row) ELSE summery
          /\ nextSummeryId' = IF stored THEN nextSummeryId + 1 ELSE nextSummeryId
          /\ run' = [run EXCEPT ![r] =
               PU_AfterPersist(
                 [run[r] EXCEPT !.persisted =
                    InsertOutcome(ok, run[r].req.url_id, run[r].req.prompt_id)],
                 IF stored THEN row ELSE NoSummeryRow)]
  /\ UNCHANGED <<urls, prompts, nextUrlId, env, client, received>>

(***************************************************************************)
(* The server handling one request at a time.                              *)
(***************************************************************************)
Next ==
  \E r \in {1} :
    \/ SU_Receive(r)
    \/ SU_CreateUrlRecord(r)
    \/ SU_ResolvePrompt(r)
    \/ SU_Scrape(r)
    \/ SU_Complete(r)
    \/ SU_Persist(r)
    \/ PU_Receive(r)
    \/ PU_ReadUrlRecord(r)
    \/ PU_ResolvePrompt(r)
    \/ PU_Scrape(r)
    \/ PU_Complete(r)
    \/ PU_Persist(r)

Spec == Init /\ [][Next]_vars

(***************************************************************************)
(* The text extraction on its own: an invocation that has just received    *)
(* the body of the page (`const html = await response.text()`) applies the *)
(* extraction chain to it, and the text it gets is then fed to the chain   *)
(* again as if it were a page.                                             *)
(***************************************************************************)
\* Number of fragments a page body is put together from.
MaxFragments == 4

\* The pieces page bodies are put together from: angle brackets, white
\* space, a letter, a text one character short of the cap, and the opening
\* and closing literals of script and style blocks.
Fragments ==
  { Str(<<"<">>), Str(<<">">>), Str(<<" ">>), Str(<<"\n">>),
    <<Blk(1)>>, <<Blk(ScrapeCap - 1)>>,
    Str(<<"<", "s", "c", "r", "i", "p", "t">>),
    Str(<<"<", "/", "s", "c", "r", "i", "p", "t", ">">>),
    Str(<<"<", "S", "T", "Y", "L", "E">>),
    Str(<<"<", "/", "s", "t", "y", "l", "e", ">">>) }

RECURSIVE Join(_)
\* The fragments of the tuple t one after the other.
Join(t) == IF t = <<>> THEN <<>> ELSE Cat(t[1], Join(Tail(t)))

\* A page with tags and runs of white space inside its text:
\* <p>x \n\tx</p> <b>x</b>
SpacedPage ==
  Cat(Str(<<"<", "p", ">">>),
      Cat(<<Blk(1)>>,
          Cat(Str(<<" ", "\n", "\t">>),
              Cat(<<Blk(1)>>,
                  Cat(Str(<<"<", "/", "p", ">", " ", "<", "b", ">">>),
                      Cat(<<Blk(1)>>, Str(<<"<", "/", "b", ">">>)))))))

\* The page bodies tried: every body of at most MaxFragments fragments, and
\* the sample pages.
Bodies ==
  {Join(t) : t \in UNION {[1..n -> Fragments] : n \in 0..MaxFragments}}
    \cup Pages \cup {SpacedPage}

InitExtract ==
  /\ urls = {}
  /\ prompts = SamplePrompts
  /\ summery = {}
  /\ nextUrlId = 1
  /\ nextSummeryId = 1
  /\ env = [OPENAI_API_KEY |-> JStr("sk-key")]
  /\ received = 0
  /\ client = NoClient
  /\ \E body \in Bodies :
       run = [r \in Slots |->
                IF r = 1
                THEN [IdleRun EXCEPT !.pc = "Fetched", !.html = body]
                ELSE IdleRun]

\* scrapedText = html.replace(...)...substring(0, 8000)
ExtractText(r) ==
  /\ run[r].pc = "Fetched"
  /\ run' = [run EXCEPT ![r].scrapedText = Extract(run[r].html),
                        ![r].pc = "Extracted"]
  /\ UNCHANGED <<store, env, client, received>>

\* The extracted text is the page of a second extraction.
ReExtractText(r) ==
  /\ run[r].pc = "Extracted"
  /\ run' = [run EXCEPT ![r].html = run[r].scrapedText,
                        ![r].scrapedText = Extract(run[r].scrapedText),
                        ![r].pc = "ReExtracted"]
  /\ UNCHANGED <<store, env, client, received>>

NextExtract == \E r \in {1} : ExtractText(r) \/ ReExtractText(r)

SpecExtract == InitExtract /\ [][NextExtract]_vars

(***************************************************************************)
(* The server handling two requests at a time, while other clients of the   *)
(* store delete rows.  The requests are well formed: they name the sample   *)
(* page (or a url that is no absolute URI) and the first sample prompt,     *)
(* and the URL record with the first id.                                   *)
(***************************************************************************)
ConcurrentSURequests ==
  { [method |-> "POST", json |-> TRUE, url |-> JStr(u),
     url_id |-> JUndef, prompt_id |-> JNum(1)] :
      u \in {"https://example.com", "example.com"} }

ConcurrentPURequests ==
  { [method |-> "POST", json |-> TRUE, url |-> JUndef,
     url_id |-> JNum(1), prompt_id |-> JNum(1)] }

\* A client calls summerize_url.
Ingest(r) == SU_Receive(r) /\ run'[r].req \in ConcurrentSURequests

\* A client calls process-url.
AnalyzeExisting(r) == PU_Receive(r) /\ run'[r].req \in ConcurrentPURequests

\* What the target site and the completion service answer while two
\* requests are handled: the sample page, a non-2xx status or no answer; a
\* text, an empty text, a body with no choices field, or a non-2xx status.
ConcurrentFetchOutcomes ==
  {NoFetch, [kind |-> "non2xx", body |-> <<>>],
   [kind |-> "throws", body |-> <<>>],
   [kind |-> "ok", body |-> ExamplePage]}

ConcurrentCompletionOutcomes ==
  {NoCompletion, [kind |-> "non2xx", data |-> NoData],
   [kind |-> "ok", data |-> [hasChoices |-> FALSE, choices |-> <<>>]],
   [kind |-> "ok",
    data |-> [hasChoices |-> TRUE, choices |-> <<Choice(TRUE, TRUE, "")>>]],
   [kind |-> "ok",
    data |-> [hasChoices |-> TRUE,
              choices |-> <<Choice(TRUE, TRUE, "A short page.")>>]]}

Answered(rec) ==
  /\ rec.fetched \in ConcurrentFetchOutcomes
  /\ rec.completed \in ConcurrentCompletionOutcomes

\* A client deletes the row id of urls; the rows of url_summery that
\* reference it go with it (ON DELETE CASCADE).
DeleteUrl(id) ==
  /\ \E u \in urls : u.id = id
  /\ urls' = {u \in urls : u.id # id}
  /\ summery' = {row \in summery : row.url_id # id}
  /\ UNCHANGED
       <<prompts, nextUrlId, nextSummeryId, env, client, run, received>>

\* handleDeletePrompt: the row id of prompts is deleted; the rows of
\* url_summery that reference it go with it (ON DELETE CASCADE).
DeletePrompt(id) ==
  /\ \E p \in prompts : p.id = id
  /\ prompts' = {p \in prompts : p.id # id}
  /\ summery' = {row \in summery : row.prompt_id # id}
  /\ UNCHANGED <<urls, nextUrlId, nextSummeryId, env, client, run, received>>

NextConcurrent ==
  \/ \E r \in Slots :
       \/ Ingest(r)
       \/ SU_CreateUrlRecord(r)
       \/ SU_ResolvePrompt(r)
       \/ SU_Scrape(r) /\ Answered(run'[r])
       \/ SU_Complete(r) /\ Answered(run'[r])
       \/ SU_Persist(r)
       \/ AnalyzeExisting(r)
       \/ PU_ReadUrlRecord(r)
       \/ PU_ResolvePrompt(r)
       \/ PU_Scrape(r) /\ Answered(run'[r])
       \/ PU_Complete(r) /\ Answered(run'[r])
       \/ PU_Persist(r)
  \/ \E id \in {1} : DeleteUrl(id) \/ DeletePrompt(id)

SpecConcurrent == Init /\ [][NextConcurrent]_vars

\* The call the run r awaits returns or raises and the handler runs on to
\* its next await or to its response.
Step(r) ==
  \/ SU_CreateUrlRecord(r)
  \/ SU_ResolvePrompt(r)
  \/ SU_Scrape(r) /\ Answered(run'[r])
  \/ SU_Complete(r) /\ Answered(run'[r])
  \/ SU_Persist(r)
  \/ PU_ReadUrlRecord(r)
  \/ PU_ResolvePrompt(r)
  \/ PU_Scrape(r) /\ Answered(run'[r])
  \/ PU_Complete(r) /\ Answered(run'[r])
  \/ PU_Persist(r)

\* Each invocation is handled by a worker of its own: no worker takes a
\* second request.
FirstIngest(r) == run[r].pc = "Idle" /\ Ingest(r)
FirstAnalyzeExisting(r) == run[r].pc = "Idle" /\ AnalyzeExisting(r)

NextFair ==
  \/ \E r \in Slots :
       \/ FirstIngest(r)
       \/ SU_CreateUrlRecord(r)
       \/ SU_ResolvePrompt(r)
       \/ SU_Scrape(r) /\ Answered(run'[r])
       \/ SU_Complete(r) /\ Answered(run'[r])
       \/ SU_Persist(r)
       \/ FirstAnalyzeExisting(r)
       \/ PU_ReadUrlRecord(r)
       \/ PU_ResolvePrompt(r)
       \/ PU_Scrape(r) /\ Answered(run'[r])
       \/ PU_Complete(r) /\ Answered(run'[r])
       \/ PU_Persist(r)
  \/ \E id \in {1} : DeleteUrl(id) \/ DeletePrompt(id)

\* Every call that is awaited eventually returns or raises; nothing is
\* assumed about when clients send requests or delete rows.
FairConcurrent ==
  Init /\ [][NextFair]_vars /\ \A r \in Slots : WF_vars(Step(r))

\* Two invocations at once whose inputs differ: two prompts (one id sent as
\* text), two pages at the target, two bodies from the completion service.
TwoPromptSURequests ==
  { [method |-> "POST", json |-> TRUE, url |-> JStr("https://example.com"),
     url_id |-> JUndef, prompt_id |-> p] : p \in {JNum(1), JStr("2")} }

TwoPromptPURequests ==
  { [method |-> "POST", json |-> TRUE, url |-> JUndef,
     url_id |-> JNum(1), prompt_id |-> p] : p \in {JNum(1), JStr("2")} }

TwoPages ==
  {NoFetch, [kind |-> "ok", body |-> ExamplePage],
   [kind |-> "ok", body |-> BlankPage]}

TwoTexts ==
  {NoCompletion} \cup
  { [kind |-> "ok",
     data |-> [hasChoices |-> TRUE,
               choices |-> <<Choice(TRUE, TRUE, "A short page.")>>]],
    [kind |-> "ok",
     data |-> [hasChoices |-> TRUE,
               choices |-> <<Choice(TRUE, TRUE, "First."),
                             Choice(TRUE, TRUE, "Second.")>>]] }

AnsweredApart(rec) == rec.fetched \in TwoPages /\ rec.completed \in TwoTexts

IngestApart(r) ==
  /\ run[r].pc = "Idle"
  /\ SU_Receive(r) /\ run'[r].req \in TwoPromptSURequests

AnalyzeApart(r) ==
  /\ run[r].pc = "Idle"
  /\ PU_Receive(r) /\ run'[r].req \in TwoPromptPURequests

NextApart ==
  \E r \in Slots :
    \/ IngestApart(r)
    \/ SU_CreateUrlRecord(r)
    \/ SU_ResolvePrompt(r)
    \/ SU_Scrape(r) /\ AnsweredApart(run'[r])
    \/ SU_Complete(r) /\ AnsweredApart(run'[r])
    \/ SU_Persist(r)
    \/ AnalyzeApart(r)
    \/ PU_ReadUrlRecord(r)
    \/ PU_ResolvePrompt(r)
    \/ PU_Scrape(r) /\ AnsweredApart(run'[r])
    \/ PU_Complete(r) /\ AnsweredApart(run'[r])
    \/ PU_Persist(r)

SpecApart == Init /\ [][NextApart]_vars

(***************************************************************************)
(* UrlList: the list of saved URLs in the browser.                         *)
(***************************************************************************)
MaxAnalyze == 3

\* The rows of urls when the list is opened.
ListRows ==
  { [id |-> 1, created_at |-> 1, url |-> "https://example.com", caption |-> 1],
    [id |-> 2, created_at |-> 2, url |-> "example.com", caption |-> 2] }

\* The names of the sample prompts in ascending order.
PromptNamesAscending ==
  <<"Business Analysis", "General Summary", "Key Insights",
    "Technical Analysis">>

\* .order("prompt_name", { ascending: true })
RECURSIVE OrderByName(_)
OrderByName(rows) ==
  IF rows = {} THEN <<>>
  ELSE LET rank(row) == CHOOSE i \in 1..Len(PromptNamesAscending) :
                          PromptNamesAscending[i] = row.prompt_name
           first == CHOOSE row \in rows :
                      \A other \in rows : rank(row) <= rank(other)
       IN <<first>> \o OrderByName(rows \ {first})

InitList ==
  /\ urls = ListRows
  /\ prompts = SamplePrompts
  /\ summery = {}
  /\ nextUrlId = 3
  /\ nextSummeryId = 1
  /\ env = [OPENAI_API_KEY |-> JStr("sk-key")]
  /\ run = [r \in Slots |-> IdleRun]
  /\ received = 0
  /\ client = NoClient

\* disabled={processingId === urlRecord.id || !selectedPrompts[urlRecord.id]}
AnalyzeDisabled(u) ==
  client.processingId = u \/ client.selectedPrompts[u] = 0

\* The URL cards are rendered, the one of row u among them.
Listed(u) ==
  /\ client.mounted /\ ~client.loading
  /\ \E row \in client.urls : row.id = u

\* The mount effect: fetchUrls(), fetchPrompts(), fetchSummaries() of the
\* first render are called; that fetchPrompts sees the urls of that render.
Mount ==
  /\ ~client.mounted
  /\ client' = [client EXCEPT !.mounted = TRUE,
                              !.loading = TRUE,
                              !.fetchUrlsPending = TRUE,
                              !.fetchPromptsPending = TRUE,
                              !.closureUrls = client.urls,
                              !.fetchSummariesPending = @ + 1]
  /\ UNCHANGED <<store, env, run, received>>

\* fetchUrls after its await: setUrls or setError, then setLoading(false).
FetchUrlsReturns ==
  /\ client.fetchUrlsPending
  /\ \E ok \in BOOLEAN :
       client' = [client EXCEPT
                    !.fetchUrlsPending = FALSE,
                    !.urls = IF ok THEN urls ELSE @,
                    !.error = IF ok THEN @ ELSE "Failed to fetch URLs",
                    !.loading = FALSE]
  /\ UNCHANGED <<store, env, run, received>>

\* fetchPrompts after its await: setPrompts and, when there is a prompt, the
\* first one is selected for every URL of closureUrls that has none.
FetchPromptsReturns ==
  /\ client.fetchPromptsPending
  /\ \E ok \in BOOLEAN :
       LET data == OrderByName(prompts)
           ids == {row.id : row \in client.closureUrls}
       IN client' =
            IF ok
            THEN [client EXCEPT
                    !.fetchPromptsPending = FALSE,
                    !.prompts = data,
                    !.selectedPrompts =
                       IF Len(data) > 0
                       THEN [u \in ListIds |->
                               IF u \in ids /\ @[u] = 0 THEN data[1].id
                               ELSE @[u]]
                       ELSE @]
            ELSE [client EXCEPT !.fetchPromptsPending = FALSE,
                                !.error = "Failed to fetch prompts"]
  /\ UNCHANGED <<store, env, run, received>>

\* fetchSummaries after its await.
FetchSummariesReturns ==
  /\ client.fetchSummariesPending > 0
  /\ \E ok \in BOOLEAN :
       client' = [client EXCEPT
                    !.fetchSummariesPending = @ - 1,
                    !.summaries = IF ok THEN summery ELSE @,
                    !.error = IF ok THEN @ ELSE "Failed to fetch summaries"]
  /\ UNCHANGED <<store, env, run, received>>

\* onChange of the select of card u: an option of the list, or "Choose
\* prompt..." (0).
ChoosePrompt(u, p) ==
  /\ Listed(u)
  /\ p = 0 \/ \E i \in 1..Len(client.prompts) : client.prompts[i].id = p
  /\ client' = [client EXCEPT !.selectedPrompts[u] = p, !.chosen = TRUE]
  /\ UNCHANGED <<store, env, run, received>>

\* A click on the enabled Analyze button of card u: processUrl(u) up to its
\* await of supabase.functions.invoke("process-url", ...).
ClickAnalyze(u) ==
  /\ Listed(u)
  /\ ~AnalyzeDisabled(u)
  /\ client.clicks < MaxAnalyze
  /\ client' =
       IF client.selectedPrompts[u] = 0
       THEN [client EXCEPT !.error = "Please select a prompt",
                           !.clicks = @ + 1]
       ELSE [client EXCEPT !.processingId = u,
                           !.error = "",
                           !.results = "",
                           !.invoked[u] = @ + 1,
                           !.clicks = @ + 1]
  /\ UNCHANGED <<store, env, run, received>>

\* processUrl(u) after its await: setResults and fetchSummaries(), or
\* setError; finally setProcessingId(null).
AnalyzeReturns(u) ==
  /\ client.invoked[u] > 0
  /\ \E ok \in BOOLEAN :
       client' = [client EXCEPT
                    !.invoked[u] = @ - 1,
                    !.results = IF ok THEN "data" ELSE @,
                    !.fetchSummariesPending = IF ok THEN @ + 1 ELSE @,
                    !.error = IF ok THEN @ ELSE "Failed to process URL",
                    !.processingId = 0]
  /\ UNCHANGED <<store, env, run, received>>

\* A click on Refresh (disabled while loading): fetchUrls() up to its await.
ClickRefresh ==
  /\ client.mounted /\ ~client.loading
  /\ client' = [client EXCEPT !.loading = TRUE, !.fetchUrlsPending = TRUE]
  /\ UNCHANGED <<store, env, run, received>>

NextList ==
  \/ Mount
  \/ FetchUrlsReturns
  \/ FetchPromptsReturns
  \/ FetchSummariesReturns
  \/ \E u \in ListIds, p \in 0..4 : ChoosePrompt(u, p)
  \/ \E u \in ListIds : ClickAnalyze(u)
  \/ \E u \in ListIds : AnalyzeReturns(u)
  \/ ClickRefresh

SpecList == InitList /\ [][NextList]_vars

(***************************************************************************)
(* EnteredURL: the Add & Analyze form, with the function it calls.         *)
(***************************************************************************)
MaxSubmits == 2

\* The page is open: the form has been mounted and its fetchPrompts called;
\* the list below it is mounted and has loaded the still empty urls table.
InitForm ==
  /\ urls = {}
  /\ prompts = SamplePrompts
  /\ summery = {}
  /\ nextUrlId = 1
  /\ nextSummeryId = 1
  /\ env \in {[OPENAI_API_KEY |-> JUndef], [OPENAI_API_KEY |-> JStr("sk-key")]}
  /\ run = [r \in Slots |-> IdleRun]
  /\ received = 0
  /\ client = [NoClient EXCEPT !.formPromptsPending = TRUE,
                               !.mounted = TRUE, !.loading = FALSE]

\* fetchPrompts of the form after its await; the selectedPromptId it tests
\* is the null of the first render, so the first prompt is selected.
FormFetchPromptsReturns ==
  /\ client.formPromptsPending
  /\ \E ok \in BOOLEAN :
       LET data == OrderByName(prompts)
       IN client' =
            IF ok
            THEN [client EXCEPT
                    !.formPromptsPending = FALSE,
                    !.formPrompts = data,
                    !.selectedPromptId = IF Len(data) > 0 THEN data[1].id
                                         ELSE @]
            ELSE [client EXCEPT !.formPromptsPending = FALSE,
                                !.formError = "Failed to fetch prompts"]
  /\ UNCHANGED <<store, env, run, received>>

\* onChange of the input (disabled while loading).
TypeUrl(text) ==
  /\ ~client.formLoading
  /\ client' = [client EXCEPT !.formUrl = text]
  /\ UNCHANGED <<store, env, run, received>>

\* onChange of the select of the form (disabled while loading).
ChooseFormPrompt(p) ==
  /\ ~client.formLoading
  /\ p = 0 \/ \E i \in 1..Len(client.formPrompts) :
                client.formPrompts[i].id = p
  /\ client' = [client EXCEPT !.selectedPromptId = p]
  /\ UNCHANGED <<store, env, run, received>>

\* handleSummarize up to its await, started by Enter in the input (key) or
\* by a click on the button, which is disabled when a check would fail.
Summarize(key) ==
  LET trimmed == IF client.formUrl = " " THEN "" ELSE client.formUrl
  IN /\ ~client.formLoading
     /\ key \/ (trimmed # "" /\ client.selectedPromptId # 0)
     /\ client.submitted < MaxSubmits
     /\ client' =
          IF trimmed = ""
          THEN [client EXCEPT !.formError = "Please enter a valid URL"]
          ELSE IF client.selectedPromptId = 0
          THEN [client EXCEPT !.formError = "Please select a prompt"]
          ELSE [client EXCEPT
                  !.formLoading = TRUE,
                  !.formError = "",
                  !.summary = "",
                  !.body = [url |-> trimmed,
                            prompt_id |-> client.selectedPromptId],
                  !.submitted = @ + 1,
                  !.refreshed = FALSE]
     /\ UNCHANGED <<store, env, run, received>>

\* The request of the form arrives at summerize_url.
Deliver(r) ==
  /\ client.submitted > received
  /\ Free(r)
  /\ run' = [run EXCEPT ![r] =
               SU_Validate(NewRun(SU,
                 [method |-> "POST", json |-> TRUE,
                  url |-> JStr(client.body.url), url_id |-> JUndef,
                  prompt_id |-> JNum(client.body.prompt_id)]))]
  /\ received' = received + 1
  /\ UNCHANGED <<store, env, client>>

\* AfterInvoke that leaves loading set when the call fails.
AfterInvoke_NoFinally(cl, resp, lost) ==
  IF lost \/ resp.status \notin 200..299
  THEN [cl EXCEPT !.formError = "Edge Function returned a non-2xx status code",
                  !.returned = @ + 1]
  ELSE [cl EXCEPT !.summary = "URL added successfully!",
                  !.formUrl = "",
                  !.refreshed = TRUE,
                  !.formLoading = FALSE,
                  !.returned = @ + 1]

\* handleSummarize after its await: the call failed (lost) or was answered
\* with resp; a non-2xx answer is a functionError. On success the summary
\* is set, the input cleared and onUrlProcessed called, which has a mounted
\* list call fetchUrls and fetchSummaries; finally setLoading(false).
AfterInvoke(cl, resp, lost) ==
  IF lost \/ resp.status \notin 200..299
  THEN [cl EXCEPT !.formError = "Edge Function returned a non-2xx status code",
                  !.formLoading = FALSE,
                  !.returned = @ + 1]
  ELSE LET data == resp.body
           processed == "processed" \in DOMAIN data /\ Truthy(data.processed)
           summaryResult ==
             IF ~processed THEN "URL added successfully!"
             ELSE IF "summary" \in DOMAIN data /\ Truthy(data.summary)
             THEN data.summary.str
             ELSE "URL processed successfully!"
       IN [cl EXCEPT
             !.summary = summaryResult,
             !.formUrl = "",
             !.refreshed = TRUE,
             !.loading = IF cl.mounted THEN TRUE ELSE @,
             !.fetchUrlsPending = IF cl.mounted THEN TRUE ELSE @,
             !.fetchSummariesPending = IF cl.mounted THEN @ + 1 ELSE @,
             !.formLoading = FALSE,
             !.returned = @ + 1]

\* supabase.functions.invoke('summerize_url', ...) returns to the form.
SummarizeReturns(r) ==
  /\ client.returned < client.submitted
  /\ received = client.submitted
  /\ run[r].pc = "Done" /\ run[r].ep = SU
  /\ \E lost \in BOOLEAN :
       client' = AfterInvoke(client, run[r].resp, lost)
  /\ UNCHANGED <<store, env, run, received>>

NextForm ==
  \/ FormFetchPromptsReturns
  \/ \E text \in {"", " ", "https://example.com"} : TypeUrl(text)
  \/ \E p \in {0, 1} : ChooseFormPrompt(p)
  \/ \E key \in BOOLEAN : Summarize(key)
  \/ \E r \in {1} :
       \/ Deliver(r)
       \/ SU_CreateUrlRecord(r)
       \/ SU_ResolvePrompt(r)
       \/ SU_Scrape(r) /\ Answered(run'[r])
       \/ SU_Complete(r) /\ Answered(run'[r])
       \/ SU_Persist(r)
       \/ SummarizeReturns(r)
  \/ FetchUrlsReturns
  \/ FetchSummariesReturns

SpecForm == InitForm /\ [][NextForm]_vars

(***************************************************************************)
(* Properties.                                                             *)
(***************************************************************************)
Done(r) == run[r].pc = "Done"
Body(r) == run[r].resp.body
Status(r) == run[r].resp.status
Has(r, field) == field \in DOMAIN Body(r)
Called(r, call) == \E i \in 1..Len(run[r].calls) : run[r].calls[i] = call
Visited(r, state) == \E i \in 1..Len(run[r].hist) : run[r].hist[i] = state

\* The run made none of the calls that follow the prompt lookup.
NoScrapeNoCompletionNoResult(r) ==
  /\ ~Called(r, "GET")
  /\ ~Called(r, "POST completions")
  /\ ~Called(r, "insert url_summery")

\* The tables are as they were when the request of the run arrived.
StoreUntouched(r) ==
  /\ urls = run[r].urls0
  /\ summery = run[r].summery0

C1_Present ==
  \A r \in Slots :
    run[r].ep = SU /\ run[r].insertData # NoUrlRow
      => run[r].insertData \in urls

\* C1: in Ingest-and-Analyze the record the urls insert returned is in the
\* store in every later state of the run, whatever the later steps do, and
\* no step ever removes or changes a row of urls.
C1_UrlRecordNeverRolledBack ==
  [](C1_Present) /\ [][\A row \in urls : row \in urls']_vars

C1_Witness ==
  \E r \in Slots :
    /\ Done(r) /\ run[r].ep = SU
    /\ run[r].fail = "completion" /\ Status(r) = 500
    /\ run[r].insertData \in urls

\* C2 (as claimed): in Ingest-and-Analyze, when the urls insert succeeded and
\* the completion step fails (no API key, the call raises, non-2xx, the body
\* cannot be decoded), the response carries the url_id of the inserted row
\* and processed: false.
C2_CompletionFailureKeepsUrlId ==
  \A r \in Slots :
    /\ Done(r) /\ run[r].ep = SU
    /\ run[r].insertData # NoUrlRow
    /\ run[r].fail \in {"no key", "completion"}
    => /\ Has(r, "url_id") /\ Body(r).url_id = JNum(run[r].insertData.id)
       /\ Has(r, "processed") /\ Body(r).processed = JFalse

\* C3: in both flows, when the completion succeeded and the url_summery
\* insert fails, the response is a 200 success carrying the model output and
\* the url_id, with summery_id null, and no row is stored.
C3_PersistenceFailureIsSuccess ==
  \A r \in Slots :
    Done(r) /\ Visited(r, "PersistenceFailed")
    => /\ Status(r) = 200
       /\ Body(r).success = JTrue
       /\ Body(r).summery_id = JNull
       /\ summery = run[r].summery0
       /\ run[r].aiResponse = AiResponse(run[r].chatGptData)
       /\ run[r].ep = SU =>
            /\ Body(r).processed = JTrue
            /\ Body(r).summary = JStr(run[r].aiResponse)
            /\ Body(r).url_id = JNum(run[r].insertData.id)
       /\ run[r].ep = PU =>
            /\ Body(r).ai_response = JStr(run[r].aiResponse)
            /\ Body(r).url_id = run[r].req.url_id

C3_Witness ==
  \E r \in Slots :
    /\ Done(r) /\ run[r].ep = PU
    /\ Visited(r, "PersistenceFailed")
    /\ Status(r) = 200
    /\ run[r].aiResponse = "A short page."

\* C4: in Ingest-and-Analyze, when the urls insert fails the response is a
\* 500 and the run did nothing else: the insert is its only call and the
\* tables are unchanged.
C4_InsertFailureAborts ==
  \A r \in Slots :
    /\ Done(r) /\ run[r].ep = SU
    /\ Called(r, "insert urls")
    /\ run[r].insertData = NoUrlRow
    => /\ Status(r) = 500
       /\ run[r].calls = <<"insert urls">>
       /\ StoreUntouched(r)

C4_Witness ==
  \E r \in Slots :
    /\ Done(r) /\ run[r].ep = SU
    /\ run[r].calls = <<"insert urls">>
    /\ run[r].insertData = NoUrlRow
    /\ Status(r) = 500
    /\ urls # {}

\* C5: in Ingest-and-Analyze, when the urls insert succeeded and prompt_id
\* matches no prompt, the response is 404 with the error "Failed to fetch
\* prompt from database", details and the url_id of the inserted row; the
\* target is not fetched, the completion is not called, no result is written.
C5_UnknownPromptKeepsUrlId ==
  \A r \in Slots :
    /\ Done(r) /\ run[r].ep = SU
    /\ run[r].insertData # NoUrlRow
    /\ SelectById(prompts, run[r].req.prompt_id) = {}
    => /\ Status(r) = 404
       /\ Body(r).error = JStr("Failed to fetch prompt from database")
       /\ Has(r, "details")
       /\ Has(r, "url_id") /\ Body(r).url_id = JNum(run[r].insertData.id)
       /\ NoScrapeNoCompletionNoResult(r)
       /\ summery = run[r].summery0

C5_Witness ==
  \E r \in Slots :
    /\ Done(r) /\ run[r].ep = SU
    /\ run[r].insertData \in urls
    /\ run[r].req.prompt_id = JNum(9)
    /\ Status(r) = 404

\* C6 (as claimed): every response of Ingest-and-Analyze to a run that saved
\* the URL record and then failed has all of url_id, url, created_at,
\* processed: false, error and details.
C6_PartialFailureShape ==
  \A r \in Slots :
    /\ Done(r) /\ run[r].ep = SU
    /\ run[r].insertData # NoUrlRow
    /\ Status(r) # 200
    => /\ {"url_id", "url", "created_at", "processed", "error", "details"}
            \subseteq DOMAIN Body(r)
       /\ Body(r).processed = JFalse

\* The request passed the checks `if (!url_id)` and `if (!prompt_id)`.
PU_FieldsPresent(req) ==
  req.method = "POST" /\ req.json /\ Truthy(req.url_id) /\ Truthy(req.prompt_id)

\* C7: in Analyze-Existing, a request (with both fields present) whose
\* url_id or prompt_id matches no row ends with 404, without a GET of a
\* target, a completion call or a result row, and leaves the tables as
\* they were.
C7_UnknownIdIs404 ==
  \A r \in Slots :
    /\ Done(r) /\ run[r].ep = PU
    /\ PU_FieldsPresent(run[r].req)
    /\ \/ SelectById(run[r].urls0, run[r].req.url_id) = {}
       \/ SelectById(prompts, run[r].req.prompt_id) = {}
    => /\ Status(r) = 404
       /\ NoScrapeNoCompletionNoResult(r)
       /\ StoreUntouched(r)

C7_Witness ==
  \E r \in Slots :
    /\ Done(r) /\ run[r].ep = PU
    /\ PU_FieldsPresent(run[r].req)
    /\ urls # {}
    /\ SelectById(urls, run[r].req.url_id) = {}
    /\ Status(r) = 404

\* A required field of the request is absent or of the wrong type.
Malformed(ep, req) ==
  \/ ~req.json
  \/ ep = SU /\ req.url.t # "string"
  \/ ep = PU /\ req.url_id.t # "number"
  \/ req.prompt_id.t # "number"

\* C8 (as claimed): on either endpoint a POST whose required fields are
\* absent or wrong-typed is answered 400 before any side effect: no call is
\* made and no row is inserted.
C8_MalformedRejectedBeforeSideEffects ==
  \A r \in Slots :
    /\ Done(r)
    /\ run[r].req.method = "POST"
    /\ Malformed(run[r].ep, run[r].req)
    => /\ Status(r) = 400
       /\ run[r].calls = <<>>
       /\ StoreUntouched(r)

HelloWorld ==
  Str(<<"H", "e", "l", "l", "o", " ", "W", "o", "r", "l", "d">>)

\* Every step of an Ingest-and-Analyze run succeeded.
SU_AllSucceeded(r) ==
  Done(r) /\ run[r].ep = SU /\ Visited(r, "Persisted")

\* What C9 says of such a run apart from the summary: a 200 success with the
\* id of the new urls row, and exactly one new url_summery row, with that
\* url_id, the requested prompt_id, the extracted text of the page and the
\* summary of the response.
C9_ResponseAndRow(r) ==
  /\ Status(r) = 200
  /\ Body(r).success = JTrue
  /\ Body(r).processed = JTrue
  /\ Body(r).url_id = JNum(run[r].insertData.id)
  /\ run[r].insertData \in urls \ run[r].urls0
  /\ \E row \in summery :
       /\ summery \ run[r].summery0 = {row}
       /\ Body(r).summery_id = JNum(row.id)
       /\ row.url_id = run[r].insertData.id
       /\ row.prompt_id = ToBigint(run[r].req.prompt_id)
       /\ row.scraped_data = Extract(run[r].html)
       /\ run[r].html = ExamplePage => row.scraped_data = HelloWorld
       /\ JStr(row.ai_response) = Body(r).summary

C10_ScrapedTextCapped ==
  /\ \A r \in Slots :
       run[r].message.sent => Length(run[r].message.content) <= ScrapeCap
  /\ \A row \in summery : Length(row.scraped_data) <= ScrapeCap

C10_Witness ==
  \E r \in Slots :
    /\ Done(r)
    /\ Length(run[r].html) > ScrapeCap + 3
    /\ run[r].message.sent
    /\ Length(run[r].message.content) = ScrapeCap
    /\ run[r].summeryData \in summery
    /\ Length(run[r].summeryData.scraped_data) = ScrapeCap

\* The text has a "<" with a ">" somewhere after it.
HasTag(s) ==
  \E i \in 1..Len(s) : s[i].c = "<" /\ \E j \in i + 1..Len(s) : s[j].c = ">"

\* The text has two white space characters in a row.
HasSpaceRun(s) ==
  \E i \in 1..Len(s) - 1 : IsSpace(s[i]) /\ IsSpace(s[i + 1])

\* C11: for every page body the extracted text has no "<" followed later by
\* a ">" and no two consecutive white space characters.
C11_NoTagNoSpaceRun ==
  \A r \in Slots :
    run[r].pc \in {"Extracted", "ReExtracted"}
    => ~HasTag(run[r].scrapedText) /\ ~HasSpaceRun(run[r].scrapedText)

C11_Witness ==
  \E r \in Slots :
    /\ run[r].pc = "Extracted"
    /\ HasTag(run[r].html) /\ HasSpaceRun(run[r].html)
    /\ Length(run[r].scrapedText) > 1
    /\ \E i \in 1..Len(run[r].scrapedText) : IsSpace(run[r].scrapedText[i])

\* C12 (as claimed): extracting the extracted text again gives the same
\* text, for every page body, those longer than the cap included.
C12_Idempotent ==
  \A r \in Slots :
    run[r].pc = "ReExtracted" => run[r].scrapedText = run[r].html

\* C13 (as claimed): when the completion service answers 2xx with a body
\* that decodes and whose first choice has no text (no choices field, no
\* choice, no message, no content), the model output is "No response
\* generated", the analysis result is written and the response is a success.
C13_AbsentTextIsPlaceholder ==
  \A r \in Slots :
    /\ Done(r)
    /\ run[r].completed.kind = "ok"
    /\ FirstChoiceContent(run[r].completed.data) = JUndef
    => /\ run[r].aiResponse = "No response generated"
       /\ Called(r, "insert url_summery")
       /\ Status(r) = 200
       /\ Body(r).success = JTrue

\* C14: in both flows, with no completion-API key configured no request is
\* ever sent to the completion service and no analysis result is written,
\* and a run that got as far as the scraped page ends with status 500.
C14_MissingKeyDetectedBeforeCall ==
  \A r \in Slots :
    ~Truthy(env.OPENAI_API_KEY)
    => /\ ~Called(r, "POST completions")
       /\ ~Called(r, "insert url_summery")
       /\ summery = {}
       /\ Done(r) /\ run[r].fetched.kind = "ok" => Status(r) = 500

C14_Witness ==
  \E r \in Slots :
    /\ ~Truthy(env.OPENAI_API_KEY)
    /\ Done(r) /\ run[r].ep = PU
    /\ run[r].fetched.kind = "ok"
    /\ run[r].scrapedText = HelloWorld
    /\ Status(r) = 500

\* The URL the run fetches, once the run has it: the url of the request in
\* Ingest-and-Analyze, the url of the row read in Analyze-Existing.
HasTarget(r) ==
  \/ run[r].ep = SU /\ run[r].insertData # NoUrlRow
  \/ run[r].ep = PU /\ run[r].urlData # NoUrlRow

Target(r) ==
  IF run[r].ep = SU THEN ToText(run[r].req.url) ELSE run[r].urlData.url

\* C15: in both flows, when the fetch of the target fails (non-2xx, the call
\* raises, or the URL is no absolute URI) the response is a 500, the
\* completion service is not called and no analysis result is written; for
\* a URL that is no absolute URI no GET is sent.
C15_FetchFailureIs500 ==
  \A r \in Slots :
    /\ Done(r) /\ run[r].fetched.kind \in {"throws", "non2xx"}
       => /\ Status(r) = 500
          /\ ~Called(r, "POST completions")
          /\ ~Called(r, "insert url_summery")
          /\ summery = run[r].summery0
    /\ HasTarget(r) /\ ~IsAbsoluteUrl(Target(r))
       => /\ ~Called(r, "GET")
          /\ ~Called(r, "POST completions")
          /\ ~Called(r, "insert url_summery")
          /\ summery = run[r].summery0
          /\ Done(r) /\ run[r].promptData # NoPromptRow => Status(r) = 500

C15_Witness ==
  \E r \in Slots :
    /\ Done(r) /\ run[r].ep = PU
    /\ run[r].urlData.url = "example.com"
    /\ run[r].promptData # NoPromptRow
    /\ ~Called(r, "GET")
    /\ Status(r) = 500

\* C16: an OPTIONS request to either endpoint is answered 200 with the CORS
\* headers and an empty body, without a call to the store or to the outside
\* and with the tables unchanged.
C16_PreflightAnswered ==
  \A r \in Slots :
    Done(r) /\ run[r].req.method = "OPTIONS"
    => /\ Status(r) = 200
       /\ run[r].resp.cors = CorsPreflight
       /\ Body(r) = <<>>
       /\ run[r].calls = <<>>
       /\ StoreUntouched(r)

C16_Witness ==
  \E r \in Slots :
    /\ Done(r) /\ run[r].ep = PU /\ run[r].req.method = "OPTIONS"
    /\ Status(r) = 200
    /\ urls # {}

\* a is an initial part of b.
IsPrefix(a, b) == Len(a) <= Len(b) /\ SubSeq(b, 1, Len(a)) = a

SU_States ==
  <<"Received", "Inserted", "PromptResolved", "Scraped", "Completed">>

SU_Calls ==
  <<"insert urls", "select prompts", "GET", "POST completions",
    "insert url_summery">>

\* The states a run has visited, without the Done that ends it.
Visits(r) ==
  IF Done(r) THEN SubSeq(run[r].hist, 1, Len(run[r].hist) - 1)
  ELSE run[r].hist

\* The states visited are an initial part of Received, Inserted,
\* PromptResolved, Scraped, Completed, (Persisted | PersistenceFailed).
SU_VisitsInOrder(r) ==
  \/ IsPrefix(Visits(r), SU_States)
  \/ \E last \in {"Persisted", "PersistenceFailed"} :
       Visits(r) = Append(SU_States, last)

\* The calls made are an initial part of the five calls in their order, each
\* made after the one before it returned with success, one per state.
SU_CallsInOrder(r) ==
  /\ IsPrefix(run[r].calls, SU_Calls)
  /\ Len(run[r].calls) <= Len(Visits(r))
  /\ ~Done(r) => Len(run[r].calls) = Len(run[r].hist)
  /\ Len(run[r].calls) >= 2 => run[r].insertData # NoUrlRow
  /\ Len(run[r].calls) >= 3 => run[r].promptData # NoPromptRow
  /\ Len(run[r].calls) >= 4 => run[r].fetched.kind = "ok"
  /\ Len(run[r].calls) >= 5 => run[r].completed.kind = "ok"

\* A step of a run in progress takes it one state further, or ends it.
SU_StepsForward(r) ==
  run[r].ep = SU /\ ~Done(r) /\ run'[r] # run[r]
  => /\ IsPrefix(run[r].hist, run'[r].hist)
     /\ IsPrefix(run[r].calls, run'[r].calls)
     /\ Len(run'[r].hist) > Len(run[r].hist)
     /\ Len(run'[r].calls) <= Len(run[r].calls) + 1

\* C17: every Ingest-and-Analyze run visits an initial part of Received,
\* Inserted, PromptResolved, Scraped, Completed, (Persisted |
\* PersistenceFailed), Done; its calls are insert URL, read prompt, GET,
\* completion, insert result in that order, each after the one before it
\* returned with success; no state is skipped or visited twice.
C17_StrictlyLinear ==
  /\ [](\A r \in Slots :
          run[r].ep = SU => SU_VisitsInOrder(r) /\ SU_CallsInOrder(r))
  /\ [][\A r \in Slots : SU_StepsForward(r)]_vars

C17_Witness ==
  \E r \in Slots :
    /\ Done(r) /\ run[r].ep = SU
    /\ run[r].hist = SU_States \o <<"PersistenceFailed", "Done">>
    /\ run[r].calls = SU_Calls

\* The calls of the pipeline proper, in the order the claim gives them.
FetchFirstCalls ==
  <<"GET", "select prompts", "POST completions", "insert url_summery">>

\* The calls of the pipeline proper, in the order the handlers make them.
PromptFirstCalls ==
  <<"select prompts", "GET", "POST completions", "insert url_summery">>

\* C18 (as claimed): in every run the target is fetched and its text
\* extracted before the prompt is read: the calls after the first are an
\* initial part of GET, read prompt, completion, insert result.
C18_FetchBeforePrompt ==
  \A r \in Slots :
    run[r].calls # <<>> => IsPrefix(Tail(run[r].calls), FetchFirstCalls)

\* C18 (amended): in every run of either flow the prompt is read before the
\* target is fetched: the calls after the first are an initial part of read
\* prompt, GET, completion, insert result; the GET is sent with the prompt in
\* hand, the completion is called with the text extracted from the fetched
\* page, and the result is inserted with the answer of the completion.
C18_PromptBeforeFetch ==
  \A r \in Slots :
    /\ run[r].calls # <<>> => IsPrefix(Tail(run[r].calls), PromptFirstCalls)
    /\ Called(r, "GET") => run[r].promptData # NoPromptRow
    /\ Called(r, "POST completions")
         => /\ run[r].fetched.kind = "ok"
            /\ run[r].scrapedText = Extract(run[r].fetched.body)
            /\ run[r].message =
                 Message(run[r].promptData.prompt, Target(r),
                         run[r].scrapedText)
    /\ Called(r, "insert url_summery")
         => /\ run[r].completed.kind = "ok"
            /\ run[r].aiResponse = AiResponse(run[r].completed.data)

C18_Witness ==
  \E r \in Slots :
    /\ Done(r) /\ run[r].ep = PU
    /\ run[r].calls = <<"select urls">> \o PromptFirstCalls
    /\ run[r].summeryData \in summery

\* The row references a row of urls and a row of prompts.
References(row, urlRows, promptRows) ==
  /\ \E u \in urlRows : u.id = row.url_id
  /\ \E p \in promptRows : p.id = row.prompt_id

\* A url_summery insert that returns in this step stores its row exactly
\* when the rows it references exist; otherwise the run goes through
\* PersistenceFailed, with no row written.
InsertChecked(r) ==
  run[r].pc = "Completed" /\ run'[r].pc = "Done"
  => LET urlId == IF run[r].ep = SU THEN run[r].insertData.id
                  ELSE ToBigint(run[r].req.url_id)
         promptId == ToBigint(run[r].req.prompt_id)
     IN IF (\E u \in urls : u.id = urlId) /\ (\E q \in prompts : q.id = promptId)
        THEN run'[r].persisted \in {"stored", "error"}
        ELSE /\ run'[r].persisted \in {"foreign key", "error"}
             /\ summery' = summery
             /\ run'[r].summeryData = NoSummeryRow
             /\ run'[r].hist[Len(run'[r].hist) - 1] = "PersistenceFailed"

\* C19: every url_summery row references a urls row and a prompts row that
\* exist when the row is created (and as long as the row exists), however
\* the runs interleave with deletions of URL and prompt rows; an insert
\* whose references are gone is rejected and the run ends through
\* PersistenceFailed without a row.
C19_ReferentialIntegrity ==
  /\ [](\A row \in summery : References(row, urls, prompts))
  /\ [][/\ \A row \in summery' \ summery : References(row, urls, prompts)
        /\ \A r \in Slots : InsertChecked(r)]_vars

C19_Witness ==
  \E r \in Slots :
    /\ Done(r) /\ run[r].ep = PU
    /\ run[r].persisted = "foreign key"
    /\ run[r].promptData \notin prompts
    /\ run[r].urlData \in urls
    /\ Status(r) = 200
    /\ Body(r).summery_id = JNull

\* What a run did from the point where it had the prompt: the calls it made
\* after the prompt lookup, the completion message, the content of the row
\* it wrote (none: the content of NoSummeryRow) and the status it answered.
Tail3(calls) == SubSeq(calls, 3, Len(calls))

RowContent(row) ==
  [prompt_id |-> row.prompt_id, scraped_data |-> row.scraped_data,
   ai_response |-> row.ai_response]

\* The two runs had the same URL and prompt and got the same answers from
\* the target site, the completion service and the store.
SameInputs(a, b) ==
  /\ run[a].promptData # NoPromptRow
  /\ run[a].promptData = run[b].promptData
  /\ run[a].insertData.url = run[b].urlData.url
  /\ run[a].fetched = run[b].fetched
  /\ run[a].completed = run[b].completed
  /\ run[a].persisted = run[b].persisted

\* C20: from the point where the prompt is resolved a run of
\* Ingest-and-Analyze and a run of Analyze-Existing with the same URL, the
\* same prompt and the same answers of the outside make the same calls with
\* the same completion message, write the same row content (or none) and
\* answer the same status.
C20_SameTail ==
  \A a, b \in Slots :
    /\ Done(a) /\ run[a].ep = SU
    /\ Done(b) /\ run[b].ep = PU
    /\ SameInputs(a, b)
    => /\ Tail3(run[a].calls) = Tail3(run[b].calls)
       /\ run[a].message = run[b].message
       /\ run[a].scrapedText = run[b].scrapedText
       /\ RowContent(run[a].summeryData) = RowContent(run[b].summeryData)
       /\ run[a].summeryData # NoSummeryRow
            => /\ run[a].summeryData.url_id = run[a].insertData.id
               /\ run[b].summeryData.url_id = run[b].urlData.id
       /\ Status(a) = Status(b)

C20_Witness ==
  \E a, b \in Slots :
    /\ Done(a) /\ run[a].ep = SU
    /\ Done(b) /\ run[b].ep = PU
    /\ SameInputs(a, b)
    /\ run[a].persisted = "stored"
    /\ run[a].summeryData # run[b].summeryData
    /\ Status(b) = 200

\* The run is handling a request.
InFlight(r) == run[r].pc \notin {"Idle", "Done"}

\* No call occurs twice in the calls of the run.
CallsOnce(r) ==
  \A i, j \in 1..Len(run[r].calls) :
    run[r].calls[i] = run[r].calls[j] => i = j

\* The call the run was waiting for returns in this step with a failure.
CallFails(r) ==
  /\ InFlight(r) /\ run'[r] # run[r]
  /\ \/ run[r].pc = "Received" /\ run[r].ep = SU
          /\ run'[r].insertData = NoUrlRow
     \/ run[r].pc = "Received" /\ run[r].ep = PU
          /\ run'[r].urlData = NoUrlRow
     \/ run[r].pc \in {"Inserted", "UrlFetched"}
          /\ run'[r].promptData = NoPromptRow
     \/ run[r].pc = "PromptResolved" /\ run'[r].fetched.kind # "ok"
     \/ run[r].pc = "Scraped"
          /\ \/ run'[r].completed.kind # "ok"
             \/ ChoicesThrows(run'[r].completed.data)
     \/ run[r].pc = "Completed" /\ run'[r].persisted # "stored"

\* C21: within one request every external operation is issued at most once;
\* a call that fails ends the run with its response in that same step,
\* without another call; a run that has answered changes nothing any more,
\* and the tables change only in a step of a run that has not yet answered.
C21_NoRetryNothingDeferred ==
  /\ [](\A r \in Slots : CallsOnce(r))
  /\ [][/\ \A r \in Slots :
             /\ CallFails(r)
                  => /\ run'[r].pc = "Done"
                     /\ run'[r].calls = run[r].calls
                     /\ run'[r].resp.status # 0
             /\ Done(r) /\ run'[r] # run[r]
                  => /\ received' = received + 1
                     /\ run'[r].hist[1] = "Received"
                     /\ UNCHANGED store
        /\ ~(UNCHANGED store)
             => \E r \in Slots : InFlight(r) /\ run'[r] # run[r]]_vars

C21_Witness ==
  \E r \in Slots :
    /\ Done(r) /\ run[r].ep = PU
    /\ run[r].completed.kind = "non2xx"
    /\ run[r].calls =
         <<"select urls", "select prompts", "GET", "POST completions">>
    /\ Status(r) = 500
    /\ received = 2

\* The analysis results in the table that were not there when the current
\* request of the run arrived.
NewResults(r) == summery \ run[r].summery0

\* C22 as claimed: every pipeline run that was attempted, successful or not,
\* has created one analysis result.
C22_OncePerAttemptedRun ==
  \A r \in Slots :
    Done(r) /\ run[r].calls # <<>> => Cardinality(NewResults(r)) = 1

\* C22: a pipeline run creates at most one analysis result: exactly one,
\* the row it reports, when its url_summery insert is accepted, and none
\* when the run fails earlier or the insert is refused; no step updates or
\* deletes a row of the table, and no step adds more than one.
C22_AtMostOncePerRun ==
  /\ [](\A r \in Slots :
          Done(r) =>
            NewResults(r) = IF run[r].persisted = "stored"
                            THEN {run[r].summeryData} ELSE {})
  /\ [][/\ summery \subseteq summery'
        /\ Cardinality(summery' \ summery) <= 1]_vars

C22_Witness ==
  \E r \in Slots :
    /\ Done(r) /\ run[r].persisted = "stored"
    /\ NewResults(r) = {run[r].summeryData}
    /\ \E old \in run[r].summery0 : old.url_id = run[r].summeryData.url_id

\* C23: in Ingest-and-Analyze every error response of a run whose URL insert
\* succeeded has an error field and the url_id of the row this run inserted,
\* whichever later step failed and whether it returned an error or threw.
C23_ErrorAfterInsertCarriesUrlId ==
  \A r \in Slots :
    /\ Done(r) /\ run[r].ep = SU
    /\ run[r].insertData # NoUrlRow
    /\ Status(r) # 200
    => /\ Has(r, "error")
       /\ Has(r, "url_id")
       /\ Body(r).url_id = JNum(run[r].insertData.id)
       /\ run[r].insertData \notin run[r].urls0

\* Runs with an inserted URL have failed at the prompt, at the fetch (thrown
\* and non-2xx), at the key and at the completion (thrown and non-2xx).
C23_Witness ==
  \E r \in Slots :
    /\ Done(r) /\ run[r].ep = SU
    /\ run[r].insertData # NoUrlRow
    /\ Status(r) = 500
    /\ run[r].completed.kind = "throws"
    /\ Body(r).url_id = JNum(run[r].insertData.id)

\* The response of the run reports success.
ReportsSuccess(r) ==
  Done(r) /\ Has(r, "success") /\ Body(r).success = JTrue

\* C24: a response with success: true is returned only with status 200, only
\* in a run whose completion call succeeded and, in Ingest-and-Analyze, whose
\* URL row is in the store; its summery_id is non-null only if this run
\* stored an analysis result with that id.
C24_SuccessNotMisreported ==
  \A r \in Slots :
    ReportsSuccess(r) =>
      /\ Status(r) = 200
      /\ run[r].completed.kind = "ok"
      /\ ~ChoicesThrows(run[r].completed.data)
      /\ run[r].ep = SU => /\ run[r].insertData \in urls
                           /\ run[r].insertData \notin run[r].urls0
      /\ Body(r).summery_id # JNull =>
           /\ run[r].persisted = "stored"
           /\ run[r].summeryData \in summery \ run[r].summery0
           /\ Body(r).summery_id = JNum(run[r].summeryData.id)

\* Success has been reported with a summery_id and, by another run, with
\* summery_id null.
C24_Witness ==
  \E r \in Slots :
    /\ ReportsSuccess(r) /\ run[r].ep = SU
    /\ Body(r).summery_id # JNull
    /\ run[r].summeryData \in summery \ run[r].summery0

\* The rows of the urls table that were not there when the current request
\* of the run arrived.
NewUrls(r) == urls \ run[r].urls0

\* C25: an Ingest-and-Analyze run whose insert succeeds adds exactly one row
\* to the urls table, the one it reports, and a run that inserts nothing
\* adds none; every row that was there is still there unchanged;
\* Analyze-Existing leaves the table as it was; no step of either flow
\* changes the prompts table, and no step changes or removes a urls row.
C25_WritesConfined ==
  /\ [](\A r \in Slots :
          Done(r) =>
            /\ run[r].urls0 \subseteq urls
            /\ run[r].ep = SU =>
                 NewUrls(r) = IF run[r].insertData # NoUrlRow
                              THEN {run[r].insertData} ELSE {}
            /\ run[r].ep = PU => urls = run[r].urls0)
  /\ [][/\ prompts' = prompts
        /\ urls \subseteq urls'
        /\ \A a \in urls, b \in urls' :
             a.id = b.id => a.url = b.url /\ a.caption = b.caption]_vars

\* A second ingest of a url that is already in the table has added its own
\* row beside the old one.
C25_Witness ==
  \E r \in Slots :
    /\ Done(r) /\ run[r].ep = SU
    /\ run[r].insertData # NoUrlRow
    /\ NewUrls(r) = {run[r].insertData}
    /\ \E old \in run[r].urls0 : old.url = run[r].insertData.url

\* C26: when every awaited call eventually returns or raises, every request
\* that is being handled reaches Done; a run has no response while it is
\* handled and one response with a status once it is Done, which stays as it
\* is until the next request; a run that is being handled can always take
\* its next step, whatever the other runs do.
C26_EveryRequestIsAnswered ==
  /\ \A r \in Slots : InFlight(r) ~> Done(r)
  /\ [](\A r \in Slots :
          /\ InFlight(r) => run[r].resp = NoResponse /\ ENABLED Step(r)
          /\ Done(r) => run[r].resp.status \in {200, 400, 404, 500})
  /\ [][\A r \in Slots :
          Done(r) /\ received' = received => run'[r] = run[r]]_vars

\* An ingest and an analysis that were handled at once have both answered,
\* the analysis with 404 after its prompt lookup.
C26_Witness ==
  /\ Done(1) /\ Done(2)
  /\ run[1].ep = SU /\ run[2].ep = PU
  /\ Status(1) = 200 /\ Status(2) = 404
  /\ Called(2, "select prompts")

\* The id of the URL the run works on.
OwnUrlId(rec) ==
  IF rec.ep = SU THEN rec.insertData.id ELSE ToBigint(rec.req.url_id)

\* What the run holds was made from its own request and from the answers to
\* its own calls.
OwnData(rec) ==
  /\ rec.promptData # NoPromptRow =>
       rec.promptData.id = ToBigint(rec.req.prompt_id)
  /\ rec.fetched.kind = "ok" => rec.scrapedText = Extract(rec.fetched.body)
  /\ rec.message.sent =>
       /\ rec.message.prompt = rec.promptData.prompt
       /\ rec.message.content = Extract(rec.fetched.body)
  /\ rec.summeryData # NoSummeryRow =>
       /\ rec.summeryData.url_id = OwnUrlId(rec)
       /\ rec.summeryData.prompt_id = ToBigint(rec.req.prompt_id)
       /\ rec.summeryData.scraped_data = Extract(rec.fetched.body)
       /\ rec.summeryData.ai_response = AiResponse(rec.completed.data)
       /\ rec.summeryData \in summery

\* The success response of the run reports its own URL, prompt and output.
OwnResponse(r) ==
  LET rec == run[r]
      prompt == CHOOSE p \in SamplePrompts : p.id = ToBigint(rec.req.prompt_id)
  IN IF rec.ep = SU
     THEN /\ Body(r).url_id = JNum(rec.insertData.id)
          /\ Body(r).summary = JStr(AiResponse(rec.completed.data))
          /\ Body(r).prompt_used = JStr(prompt.prompt_name)
     ELSE /\ Body(r).url_id = rec.req.url_id
          /\ Body(r).ai_response = JStr(AiResponse(rec.completed.data))
          /\ Body(r).prompt_name = JStr(prompt.prompt_name)
          /\ Body(r).scraped_text_length =
               JNum(Length(Extract(rec.fetched.body)))

\* C27: in every interleaving of two runs, what a run holds, the analysis
\* result it writes and the success response it returns carry the url_id,
\* the prompt, the scraped text and the model output of that same run; two
\* ingests at once, of the same URL too, create two rows with distinct ids.
C27_NoInterference ==
  /\ \A r \in Slots :
       /\ OwnData(run[r])
       /\ ReportsSuccess(r) => OwnResponse(r)
  /\ \A r, q \in Slots :
       /\ r # q
       /\ run[r].ep = SU /\ run[q].ep = SU
       /\ run[r].insertData # NoUrlRow /\ run[q].insertData # NoUrlRow
       => /\ run[r].insertData.id # run[q].insertData.id
          /\ {run[r].insertData, run[q].insertData} \subseteq urls

\* Two ingests of the same URL overlapped (the first to insert its URL was
\* the last to store its result) with different prompts, pages and outputs.
C27_Witness ==
  /\ ReportsSuccess(1) /\ ReportsSuccess(2)
  /\ run[1].ep = SU /\ run[2].ep = SU
  /\ run[1].insertData.url = run[2].insertData.url
  /\ run[1].insertData.id < run[2].insertData.id
  /\ run[1].summeryData # NoSummeryRow /\ run[2].summeryData # NoSummeryRow
  /\ run[1].summeryData.id > run[2].summeryData.id
  /\ run[1].req.prompt_id # run[2].req.prompt_id
  /\ run[1].fetched # run[2].fetched
  /\ run[1].completed # run[2].completed

\* The run answered a POST to process-url.
AnalyzeAnswered(r) ==
  Done(r) /\ run[r].ep = PU /\ run[r].req.method = "POST"

\* C28: Analyze-Existing answers with 200, 400, 404 or 500 only; with 400
\* only when a required field is missing or the body is malformed, with 404
\* only when the urls table has no row of url_id or the prompts table no row
\* of prompt_id, and with 500 only when the scrape or the completion failed.
C28_StatusTellsTheCause ==
  \A r \in Slots :
    AnalyzeAnswered(r) =>
      /\ Status(r) \in {200, 400, 404, 500}
      /\ Status(r) = 400 =>
           \/ ~run[r].req.json
           \/ ~Truthy(run[r].req.url_id)
           \/ ~Truthy(run[r].req.prompt_id)
      /\ Status(r) = 404 =>
           \/ SelectById(urls, run[r].req.url_id) = {}
           \/ SelectById(prompts, run[r].req.prompt_id) = {}
      /\ Status(r) = 500 =>
           run[r].fail \in {"scrape", "no key", "completion"}

\* C29: while a process-url request for a URL is in flight the Analyze
\* button of that URL is disabled, and no URL has more than one request in
\* flight.
C29_OneAnalyzePerUrl ==
  \A u \in ListIds :
    /\ client.invoked[u] <= 1
    /\ client.invoked[u] > 0 => AnalyzeDisabled(u)

\* C30: once the list is mounted and its first fetch of the URLs and its
\* fetch of the prompts have both returned rows, and the user has chosen no
\* prompt, every listed URL has the first prompt by name selected and its
\* Analyze button enabled.
C30_FirstPromptSelected ==
  /\ client.mounted
  /\ ~client.fetchUrlsPending /\ ~client.fetchPromptsPending
  /\ client.urls # {} /\ client.prompts # <<>>
  /\ ~client.chosen
  => \A row \in client.urls :
       /\ client.selectedPrompts[row.id] = client.prompts[1].id
       /\ ~AnalyzeDisabled(row.id)

\* The last submission of the form has ended, after its request was handled
\* by the run r.
SubmissionEnded(r) ==
  /\ client.submitted > 0
  /\ client.returned = client.submitted
  /\ received = client.submitted
  /\ run[r].ep = SU /\ Done(r)

\* C31: whenever a submission of the form has a URL row stored, the end of
\* the submission calls onUrlProcessed, so that the list is refreshed, also
\* when the function answered with a non-2xx status after storing the row.
C31_StoredUrlRefreshesList ==
  \A r \in Slots :
    /\ SubmissionEnded(r)
    /\ run[r].insertData # NoUrlRow
    /\ run[r].insertData \in urls
    => client.refreshed

\* C32: the form is loading exactly while a summerize_url request is in
\* flight, at most one is in flight, none is started while one is in
\* flight, and the step in which a request ends, however it ends, leaves
\* loading false and exactly one of summary and error set.
C32_LoadingWhileInFlight ==
  /\ [](/\ client.formLoading <=> client.returned < client.submitted
        /\ client.submitted - client.returned \in {0, 1})
  /\ [][/\ client.submitted' # client.submitted =>
             client.returned = client.submitted
        /\ client.returned' # client.returned =>
             /\ ~client.formLoading'
             /\ (client.summary' # "") # (client.formError' # "")]_vars

\* A second request has ended with a function error after the first one
\* ended with a summary, and its URL row is stored.
C32_Witness ==
  /\ client.returned = 2
  /\ ~client.formLoading
  /\ client.formError # "" /\ client.summary = ""
  /\ SubmissionEnded(1)
  /\ run[1].insertData \in urls
  /\ Cardinality(urls) = 2
  /\ summery # {}

====
